---- MODULE Spec2Model ----
(***************************************************************************)
(* The server side of the reverse HTTP tunnel: the socket wrapper          *)
(* (Connection: Take / Give / Close and its reader goroutine), the proxy   *)
(* exchange (proxyRequest, steps 1-4), the pool with its reaper (clean),   *)
(* the pool's own goroutine (keepRunning), the dispatcher coordinator      *)
(* (StartDispatcher) and its workers (dispatchRequest), and the request    *)
(* entry point (HandleRequest).                                            *)
(*                                                                         *)
(* Every goroutine is a process with a program counter; every channel      *)
(* operation is a step that is enabled only when the Go operation would    *)
(* not block; every section under Connection.lock is one atomic step,      *)
(* except Give, whose channel send happens while the lock is still held.   *)
(***************************************************************************)
EXTENDS Integers, Sequences, FiniteSets, TLC

\* ----------------------------------------------------------------- bounds
MaxSocks == 2        \* sockets the agent opens during a run
MaxReqs == 2         \* requests the callers issue during a run
Dispatchers == 2     \* Config.Dispatchers: the number of dispatcher workers
HandshakeSize == 0   \* the greeting's size (desired idle sockets)
HandshakeMax == 1    \* the greeting's max

\* ------------------------------------------------------ program constants
idlePoolMultiplier == 3
ProxyErrorCode == 526
ClientErrorCode == 527

\* What the agent may put in the metadata frame: JSON with a status code,
\* or bytes that are no JSON at all.
AgentCodes == {200, ClientErrorCode}
AgentMetas == [json : {TRUE}, code : AgentCodes] \cup {[json |-> FALSE, code |-> 0]}

\* Ids, secrets and pool keys are strings: sequences of characters.
NoID == <<>>            \* "": the id header is missing or not configured
NoSecret == <<>>        \* "": the key validator returned no secret
AgentID == <<"a">>
OtherID == <<"b">>      \* an id nobody registers under

\* hex.EncodeToString(sha256(x)): a digest is taken to be as good as its
\* input (no collisions); as a string it can be the id of a greeting.
Sha256Hex(x) == <<"#">> \o x

\* A key that is the client id whatever the secret.
HashKeyIDNoSecret(secret, clientID) == clientID

\* mulch.HashKeyID
HashKeyID(secret, clientID) ==
    IF secret = NoSecret THEN clientID ELSE Sha256Hex(secret \o clientID)

\* What HandleRegister hands to the coordinator for a socket: the parsed
\* greeting (id, size, max) and the secret of validateKey.
PoolConfig(id, secret, size, max) ==
    [id |-> id, secret |-> secret, size |-> size, max |-> max]

\* A registration: the greeting "id_size_max" as its fields between the
\* separators, and the secret validateKey returned for the request.
Registration(fields, secret) == [fields |-> fields, secret |-> secret]
DefaultGreeting == Registration(<<AgentID, HandshakeSize, HandshakeMax>>, NoSecret)

\* parseGreeting: a greeting that has not three fields is an error.
parseGreeting(fields) ==
    IF Len(fields) # 3 THEN [err |-> TRUE, client |-> PoolConfig(NoID, NoSecret, 0, 0)]
    ELSE [err |-> FALSE, client |-> PoolConfig(fields[1], NoSecret, fields[2], fields[3])]

\* HandleRegister, steps 2 and 3: the pool configuration sent on s.newPool.
Greeted(reg) == ~parseGreeting(reg.fields).err
Client(reg) == [parseGreeting(reg.fields).client EXCEPT !.secret = reg.secret]

VARIABLES
    cfg,      \* the run's configuration: its size (socks, reqs, workers),
              \* whether Config.IDHeader is set, each socket's greeting
    conn,     \* Connection, per socket
    reader,   \* Connection.read goroutine, per socket
    inbox,    \* frames the agent has sent and the reader has not read yet
    agent,    \* the peer: requests it has read, and whether it hung up
    pool,     \* Pool objects, each with its keepRunning goroutine
    srv,      \* Server: the pool map and the coordinator's position
    worker,   \* dispatcher workers
    req       \* HandleRequest goroutines

vars == <<cfg, conn, reader, inbox, agent, pool, srv, worker, req>>

Socks == 1..cfg.socks
Reqs == 1..cfg.reqs
Workers == 1..cfg.workers
Pools == 1..cfg.socks     \* a pool object is made for a socket; never more pools than sockets

\* The pool keys of the run's greetings, and the targets a caller may
\* name: such a key, an id nobody registered, and "" (no id header).
KeyOf(s) == HashKeyID(Client(cfg.greet[s]).secret, Client(cfg.greet[s]).id)
Keys == {KeyOf(s) : s \in {x \in Socks : Greeted(cfg.greet[x])}}
Targets == Keys \cup {OtherID, NoID}

NoFrame == [req |-> 0, kind |-> "none", json |-> FALSE, code |-> 0]
Frame(r, k, m) == [req |-> r, kind |-> k, json |-> m.json, code |-> m.code]
Body == [json |-> FALSE, code |-> 0]

\* ============================================================ Connection
\* A Take that hands the connection out and leaves its status alone.
TakeKeepsIdle(c) == [c EXCEPT !.requests = @ + 1]

\* Connection.Take under c.lock: `c.requests++`, then Idle -> Busy; anything
\* else is refused.
TakeOK(c) == c.status = "idle"
Take(c) ==
    IF c.status = "idle" THEN [c EXCEPT !.requests = @ + 1, !.status = "busy"]
    ELSE [c EXCEPT !.requests = @ + 1]

\* A close without the `if c.status == Closed { return }` at its top.
closeAgain(c) ==
    [c EXCEPT !.status = "closed", !.chanCloses = @ + 1, !.sockCloses = @ + 1]

\* A close that leaves c.nextResponse open.
closeKeepsChannel(c) ==
    IF c.status = "closed" THEN c
    ELSE [c EXCEPT !.status = "closed", !.sockCloses = @ + 1]

\* Connection.close (the caller holds c.lock).
close(c) ==
    IF c.status = "closed" THEN c
    ELSE [c EXCEPT !.status = "closed",
                   !.chanCloses = @ + 1,     \* close(c.nextResponse)
                   !.sockCloses = @ + 1]     \* c.sock.Close()

\* A Give that goes to the channel send without `c.status = Idle`.
GiveCheckKeepsStatus(c, len, cap) ==
    IF c.status = "closed" THEN [c |-> c, send |-> FALSE]
    ELSE [c |-> [c EXCEPT !.locked = TRUE], send |-> TRUE]

\* A Give without the `if c.status == Closed { return }` at its top.
GiveCheckRevives(c, len, cap) ==
    [c |-> [c EXCEPT !.status = "idle", !.locked = TRUE], send |-> TRUE]

\* Connection.Give up to the channel send: the new Connection and whether
\* the send `c.pool.idle <- c` follows (with c.lock still held).
GiveCheck(c, len, cap) ==
    IF c.status = "closed" THEN [c |-> c, send |-> FALSE]
    ELSE IF len >= cap
         THEN [c |-> close([c EXCEPT !.status = "idle"]), send |-> FALSE]
         ELSE [c |-> [c EXCEPT !.status = "idle", !.locked = TRUE], send |-> TRUE]

\* The send `c.pool.idle <- c` that ends a Give, and the deferred unlock.
\* `given` records the order in which these sends completed: each is later
\* than every one before it.
Latest == CHOOSE t \in {conn[s].given : s \in Socks} :
              \A s \in Socks : conn[s].given <= t
Sent(c) == [c EXCEPT !.locked = FALSE, !.given = Latest + 1]

\* A queue that holds one entry more than it was made for.
PoolCapLoose(g) == pool[g].cap + 1

\* cap(c.pool.idle)
PoolCap(g) == pool[g].cap
IdleLen(g) == Len(pool[g].idle)
Locked(s) == conn[s].locked

\* ======================================================= the agent (peer)
\* c.sock.Close(): what the peer sent and was not read is gone, and the
\* peer reads and sends no more. `cn` is the new value of conn.
Unread(cn) == [s \in Socks |-> IF cn[s].status = "closed" THEN <<>> ELSE inbox[s]]
Peer(cn) == [s \in Socks |-> IF cn[s].status = "closed"
                                THEN [agent[s] EXCEPT !.reqs = <<>>, !.down = TRUE]
                                ELSE agent[s]]
Closing(cn) ==
    /\ conn' = cn
    /\ inbox' = Unread(cn)
    /\ agent' = Peer(cn)

\* The agent reads one serialized request from the socket and answers it
\* with a text frame (the metadata) followed by a binary frame (the body).
AgentAnswer(s) ==
    /\ agent[s].reqs # <<>>
    /\ ~agent[s].down
    /\ \E m \in AgentMetas :
         LET r == Head(agent[s].reqs) IN
         inbox' = [inbox EXCEPT ![s] = @ \o <<Frame(r, "meta", m), Frame(r, "body", Body)>>]
    /\ agent' = [agent EXCEPT ![s].reqs = Tail(@)]
    /\ UNCHANGED <<cfg, conn, reader, pool, srv, worker, req>>

\* The agent sends a frame nobody asked for.
WildFrame == Frame(0, "wild", Body)
AgentWild(s) ==
    /\ conn[s].status \in {"idle", "busy"}
    /\ ~agent[s].down
    /\ inbox[s] = <<>>
    /\ inbox' = [inbox EXCEPT ![s] = <<WildFrame>>]
    /\ UNCHANGED <<cfg, conn, reader, agent, pool, srv, worker, req>>

\* The peer hangs up, or the transport fails.
AgentHangup(s) ==
    /\ conn[s].status \in {"idle", "busy"}
    /\ ~agent[s].down
    /\ agent' = [agent EXCEPT ![s].down = TRUE]
    /\ UNCHANGED <<cfg, conn, reader, inbox, pool, srv, worker, req>>

\* ======================================================== Connection.read
StoppedReader(pc) == [pc |-> pc, frame |-> NoFrame, slot |-> 0]

\* c.sock.NextReader() fails on a closed or broken socket, and the loop
\* ends at its top once the status is Closed: read() returns.
ReaderStop(s) ==
    /\ reader[s].pc = "next"
    /\ ~Locked(s)
    /\ conn[s].sockCloses > 0 \/ agent[s].down
    /\ reader' = [reader EXCEPT ![s] = StoppedReader("exit")]
    /\ UNCHANGED <<cfg, conn, inbox, agent, pool, srv, worker, req>>

\* A reader that goes on to the hand-off whatever the status.
ReaderNextAnyStatus(s) ==
    /\ reader[s].pc = "next"
    /\ conn[s].sockCloses = 0
    /\ inbox[s] # <<>>
    /\ ~Locked(s)
    /\ reader' = [reader EXCEPT ![s] =
                    [pc |-> "slot", frame |-> Head(inbox[s]), slot |-> 0]]
    /\ inbox' = [inbox EXCEPT ![s] = Tail(@)]
    /\ UNCHANGED <<cfg, conn, agent, pool, srv, worker, req>>

\* c.sock.NextReader() returns the next frame, then
\* `if c.Status() != Busy { return }` (Status() takes the read lock).
ReaderNext(s) ==
    /\ reader[s].pc = "next"
    /\ conn[s].sockCloses = 0
    /\ inbox[s] # <<>>
    /\ ~Locked(s)
    /\ reader' = [reader EXCEPT ![s] =
                    IF conn[s].status = "busy"
                    THEN [pc |-> "slot", frame |-> Head(inbox[s]), slot |-> 0]
                    ELSE StoppedReader("exit")]
    /\ inbox' = [inbox EXCEPT ![s] = Tail(@)]
    /\ UNCHANGED <<cfg, conn, agent, pool, srv, worker, req>>

\* `resp = <-c.nextResponse` on the closed channel: nil, "unlocked by Close()".
ReaderUnlocked(s) ==
    /\ reader[s].pc = "slot"
    /\ conn[s].chanCloses > 0
    /\ reader' = [reader EXCEPT ![s] = StoppedReader("exit")]
    /\ UNCHANGED <<cfg, conn, inbox, agent, pool, srv, worker, req>>

\* Connection.Close: c.lock, then close.
Close(s) == Closing([conn EXCEPT ![s] = close(conn[s])])

\* A reader that returns without the deferred Close.
ReaderExitLeavesOpen(s) ==
    /\ reader[s].pc = "exit"
    /\ ~Locked(s)
    /\ reader' = [reader EXCEPT ![s].pc = "done"]
    /\ UNCHANGED <<cfg, conn, inbox, agent, pool, srv, worker, req>>

\* The deferred c.Close("remote hang up") of read().
ReaderExit(s) ==
    /\ reader[s].pc = "exit"
    /\ ~Locked(s)
    /\ Close(s)
    /\ reader' = [reader EXCEPT ![s].pc = "done"]
    /\ UNCHANGED <<cfg, pool, srv, worker, req>>

\* ============================================================== the pool
\* The handshake a pool keeps: the greeting that made it.
Handshake(client) == [id |-> client.id, size |-> client.size, max |-> client.max]
NoHandshake == [id |-> NoID, size |-> 0, max |-> 0]

\* NewPool: the handshake, the idle queue's capacity and the reaper's
\* minimum.
NewPool(client) ==
    [idle |-> <<>>, conns |-> <<>>, closed |-> 0, done |-> FALSE,
     pc |-> "select", arg |-> 0, newConnClosed |-> FALSE,
     handshake |-> Handshake(client),
     cap |-> client.max * idlePoolMultiplier,
     minSize |-> client.size + 1]

\* A reaper that keeps one idle socket fewer than the pool's minimum.
cleanConnectionAtMin(c, idle, minSize, old) ==
    LET n == IF c.status = "idle" THEN idle + 1 ELSE idle
        c2 == IF c.status = "idle" /\ n >= minSize /\ old THEN close(c) ELSE c
    IN [c |-> c2, idle |-> n, keep |-> c2.status # "closed"]

\* A reaper that keeps only the busy sockets in the set.
cleanConnectionKeepsBusy(c, idle, minSize, old) ==
    LET n == IF c.status = "idle" THEN idle + 1 ELSE idle
        c2 == IF c.status = "idle" /\ n > minSize /\ old THEN close(c) ELSE c
    IN [c |-> c2, idle |-> n, keep |-> c2.status = "busy"]

\* Pool.cleanConnection under connection.lock; `old` is
\* time.Since(connection.idleSince) > pool.idleTimeout.
cleanConnection(c, idle, minSize, old) ==
    LET n == IF c.status = "idle" THEN idle + 1 ELSE idle
        c2 == IF c.status = "idle" /\ n > minSize /\ old THEN close(c) ELSE c
    IN [c |-> c2, idle |-> n, keep |-> c2.status # "closed"]

\* A pass that drops the closed sockets without counting them.
cleanUncounted(list, minSize, olds) ==
    LET visit(prev, s) ==
            LET cc == cleanConnection(prev.conn[s], prev.idle, minSize, s \in olds)
            IN [conn |-> [prev.conn EXCEPT ![s] = cc.c],
                idle |-> cc.idle,
                save |-> IF cc.keep THEN Append(prev.save, s) ELSE prev.save,
                dropped |-> 0]
        pass[i \in 0..Len(list)] ==
            IF i = 0 THEN [conn |-> conn, idle |-> 0, save |-> <<>>, dropped |-> 0]
            ELSE CHOOSE next \in {visit(prev, list[i]) : prev \in {pass[i - 1]}} : TRUE
    IN pass[Len(list)]

\* Pool.clean: cleanConnection on every socket of pool.connections in
\* order; the sockets kept, and how many were dropped (pool.closed++).
\* `olds` are the sockets idle for longer than the idle timeout. Each
\* visit starts from the one value the pass has come to so far.
clean(list, minSize, olds) ==
    LET visit(prev, s) ==
            LET cc == cleanConnection(prev.conn[s], prev.idle, minSize, s \in olds)
            IN [conn |-> [prev.conn EXCEPT ![s] = cc.c],
                idle |-> cc.idle,
                save |-> IF cc.keep THEN Append(prev.save, s) ELSE prev.save,
                dropped |-> IF cc.keep THEN prev.dropped ELSE prev.dropped + 1]
        pass[i \in 0..Len(list)] ==
            IF i = 0 THEN [conn |-> conn, idle |-> 0, save |-> <<>>, dropped |-> 0]
            ELSE CHOOSE next \in {visit(prev, list[i]) : prev \in {pass[i - 1]}} : TRUE
    IN pass[Len(list)]

Members(list) == {list[i] : i \in 1..Len(list)}
\* clean takes every connection's lock in turn.
NoneLocked(list) == \A s \in Members(list) : ~Locked(s)

\* ============================================ the dispatcher coordinator
\* `case newPool := <-s.newPool: s.registerPool(newPool)` for the greeting
\* of the agent's next socket: the pool is found or made, then
\* Pool.Register runs NewConnection, whose Give is where this step ends
\* when the send on pool.idle is still to come.
\* HandleRegister when parseGreeting fails: ProxyError and sock.Close();
\* nothing is sent to the coordinator and no Connection is made.
RejectGreeting ==
    /\ srv.nreg < cfg.socks
    /\ ~Greeted(cfg.greet[srv.nreg + 1])
    /\ agent' = [agent EXCEPT ![srv.nreg + 1].down = TRUE]
    /\ srv' = [srv EXCEPT !.nreg = @ + 1]
    /\ UNCHANGED <<cfg, conn, reader, inbox, pool, worker, req>>

\* A registration that makes a new pool for every socket.
registerPoolReplaces ==
    /\ srv.cpc = "loop"
    /\ srv.nreg < cfg.socks
    /\ ~srv.newPoolClosed
    /\ Greeted(cfg.greet[srv.nreg + 1])
    /\ LET s == srv.nreg + 1
           client == Client(cfg.greet[s])
           cID == HashKeyID(client.secret, client.id)
           g == srv.made + 1
           p == NewPool(client)
           c0 == [status |-> "idle", pool |-> g, locked |-> FALSE,
                  chanCloses |-> 0, sockCloses |-> 0, given |-> 0,
                  requests |-> 0]
           gc == GiveCheck(c0, Len(p.idle), p.cap)
       IN /\ pool' = [pool EXCEPT ![g] = p]
          /\ Closing([conn EXCEPT ![s] = gc.c])
          /\ reader' = [reader EXCEPT ![s].pc = IF gc.send THEN "off" ELSE "next"]
          /\ srv' = [srv EXCEPT !.nreg = s, !.poolMap[cID] = g, !.cs = s, !.cg = g,
                                !.made = g,
                                !.cpc = IF gc.send THEN "reggive" ELSE "regconn"]
    /\ UNCHANGED <<cfg, worker, req>>

registerPool ==
    /\ srv.cpc = "loop"
    /\ srv.nreg < cfg.socks
    /\ ~srv.newPoolClosed
    /\ Greeted(cfg.greet[srv.nreg + 1])
    /\ LET s == srv.nreg + 1
           client == Client(cfg.greet[s])
           cID == HashKeyID(client.secret, client.id)
           fresh == srv.poolMap[cID] = 0
           g == IF fresh THEN srv.made + 1 ELSE srv.poolMap[cID]
           p == IF fresh THEN NewPool(client) ELSE pool[g]
           c0 == [status |-> "idle", pool |-> g, locked |-> FALSE,
                  chanCloses |-> 0, sockCloses |-> 0, given |-> 0,
                  requests |-> 0]
           gc == GiveCheck(c0, Len(p.idle), p.cap)
       IN /\ pool' = [pool EXCEPT ![g] = p]
          /\ Closing([conn EXCEPT ![s] = gc.c])
          /\ reader' = [reader EXCEPT ![s].pc = IF gc.send THEN "off" ELSE "next"]
          /\ srv' = [srv EXCEPT !.nreg = s, !.poolMap[cID] = g, !.cs = s, !.cg = g,
                                !.made = IF fresh THEN g ELSE @,
                                !.cpc = IF gc.send THEN "reggive" ELSE "regconn"]
    /\ UNCHANGED <<cfg, worker, req>>

\* The send `c.pool.idle <- c` of the new Connection's Give, the deferred
\* unlock, and `go conn.read()`.
RegisterGive ==
    /\ srv.cpc = "reggive"
    /\ IdleLen(srv.cg) < PoolCap(srv.cg)
    /\ pool' = [pool EXCEPT ![srv.cg].idle = Append(@, srv.cs)]
    /\ conn' = [conn EXCEPT ![srv.cs] = Sent(@)]
    /\ reader' = [reader EXCEPT ![srv.cs].pc = "next"]
    /\ srv' = [srv EXCEPT !.cpc = "regconn"]
    /\ UNCHANGED <<cfg, inbox, agent, worker, req>>

\* `pool.newConn <- conn` of Pool.Register, taken by Pool.keepRunning at
\* its select; the coordinator is back in its loop.
RegisterConn ==
    /\ srv.cpc = "regconn"
    /\ pool[srv.cg].pc = "select"
    /\ pool' = [pool EXCEPT ![srv.cg].pc = "new", ![srv.cg].arg = srv.cs]
    /\ srv' = [srv EXCEPT !.cpc = "loop", !.cs = 0, !.cg = 0]
    /\ UNCHANGED <<cfg, conn, reader, inbox, agent, worker, req>>

\* Pool.keepRunning, `case conn, ok := <-pool.newConn`: pool.clean(), then
\* the new connection is appended. The pass is one step, taken when no
\* connection of the pool is locked.
PoolNewConn(g) ==
    /\ pool[g].pc = "new"
    /\ NoneLocked(pool[g].conns)
    /\ \E olds \in SUBSET Members(pool[g].conns) :
         LET c == clean(pool[g].conns, pool[g].minSize, olds) IN
         /\ Closing(c.conn)
         /\ pool' = [pool EXCEPT ![g].conns = Append(c.save, pool[g].arg),
                                 ![g].closed = @ + c.dropped,
                                 ![g].pc = "select", ![g].arg = 0]
    /\ UNCHANGED <<cfg, reader, srv, worker, req>>

\* The keys of s.pools, and len(s.pools) == 0.
Pooled == {k \in Keys : srv.poolMap[k] # 0}
NoPools == Pooled = {}

\* `case now := <-cleaner.C: s.cleanPools(now)`, which returns at once when
\* len(s.pools) == 0 and otherwise goes through the pools of the map, in
\* the order `range` yields them, with pool.IsEmpty().
cleanPools ==
    /\ srv.cpc = "loop"
    /\ ~NoPools
    /\ srv' = [srv EXCEPT !.cpc = "askclean", !.todo = Pooled]
    /\ UNCHANGED <<cfg, conn, reader, inbox, agent, pool, worker, req>>

\* A cleanPools that shuts an empty pool down and keeps it in the map.
IsEmptyKeepsPool ==
    /\ srv.cpc = "askclean"
    /\ \E k \in srv.todo :
       LET g == srv.poolMap[k] IN
       /\ pool[g].pc = "select"
       /\ NoneLocked(pool[g].conns)
       /\ \E olds \in SUBSET Members(pool[g].conns) :
            LET c == clean(pool[g].conns, pool[g].minSize, olds)
                empty == c.save = <<>>
            IN /\ Closing(c.conn)
               /\ pool' = [pool EXCEPT ![g].conns = c.save,
                                       ![g].closed = @ + c.dropped,
                                       ![g].done = empty,
                                       ![g].newConnClosed = empty,
                                       ![g].pc = IF empty THEN "stopped" ELSE @]
               /\ srv' = [srv EXCEPT
                            !.cpc = IF srv.todo = {k} THEN "loop" ELSE @,
                            !.todo = @ \ {k},
                            !.closed = IF empty THEN @ + pool[g].closed + c.dropped ELSE @]
    /\ UNCHANGED <<cfg, reader, worker, req>>

\* Pool.IsEmpty: `pool.askClean <- struct{}{}` taken by Pool.keepRunning at
\* its select, which runs pool.clean() and answers with the number of
\* connections left; on zero cleanPools calls pool.Shutdown(), adds the
\* pool's closed count to its own and drops the pool from the map, and
\* keepRunning returns through Pool.shutdown.
IsEmpty ==
    /\ srv.cpc = "askclean"
    /\ \E k \in srv.todo :
       LET g == srv.poolMap[k] IN
       /\ pool[g].pc = "select"
       /\ NoneLocked(pool[g].conns)
       /\ \E olds \in SUBSET Members(pool[g].conns) :
            LET c == clean(pool[g].conns, pool[g].minSize, olds)
                empty == c.save = <<>>
            IN /\ Closing(c.conn)
               /\ pool' = [pool EXCEPT ![g].conns = c.save,
                                       ![g].closed = @ + c.dropped,
                                       ![g].done = empty,
                                       ![g].newConnClosed = empty,
                                       ![g].pc = IF empty THEN "stopped" ELSE @]
               /\ srv' = [srv EXCEPT
                            !.cpc = IF srv.todo = {k} THEN "loop" ELSE @,
                            !.todo = @ \ {k},
                            !.poolMap[k] = IF empty THEN 0 ELSE @,
                            !.closed = IF empty THEN @ + pool[g].closed + c.dropped ELSE @]
    /\ UNCHANGED <<cfg, reader, worker, req>>

\* A lookup that answers with a registered pool whatever the id.
AnyPool(t) == IF NoPools THEN 0 ELSE srv.poolMap[CHOOSE k \in Pooled : TRUE]

\* s.pools[req.clientID]
PoolFor(t) == IF t \in Keys THEN srv.poolMap[t] ELSE 0

\* The worker's `s.getPool <- &getPoolRequest{...}` taken by the
\* coordinator's `case req := <-s.getPool`, and the coordinator's
\* `s.repPool <- s.pools[req.clientID]` taken by the worker's
\* `pool := <-s.repPool`.
GetPool(w) ==
    /\ srv.cpc = "loop"
    /\ worker[w].pc = "ask"
    /\ LET g == PoolFor(req[worker[w].req].target) IN
       worker' = [worker EXCEPT ![w].pool = g,
                                ![w].pc = IF g = 0 THEN "nopool" ELSE "recv"]
    /\ UNCHANGED <<cfg, conn, reader, inbox, agent, pool, srv, req>>

\* ================================================= dispatcher workers
IdleWorker == [pc |-> "idle", req |-> 0, pool |-> 0, conn |-> 0]

\* `s.dispatcher <- request` meets a worker's `for r := range s.dispatcher`.
Submit(r, w) ==
    /\ req[r].pc = "submit"
    /\ worker[w].pc = "idle"
    /\ ~srv.dispClosed
    /\ req' = [req EXCEPT ![r].pc = "await"]
    /\ worker' = [worker EXCEPT ![w].pc = "ask", ![w].req = r]
    /\ UNCHANGED <<cfg, conn, reader, inbox, agent, pool, srv>>

\* `if pool == nil { return }`, and the deferred close(request.connection).
WorkerNoPool(w) ==
    /\ worker[w].pc = "nopool"
    /\ req' = [req EXCEPT ![worker[w].req].pc = "nilreply"]
    /\ worker' = [worker EXCEPT ![w] = IdleWorker]
    /\ UNCHANGED <<cfg, conn, reader, inbox, agent, pool, srv>>

\* A receive that hands out the queue's last entry.
WorkerRecvLast(w) ==
    /\ worker[w].pc = "recv"
    /\ pool[worker[w].pool].idle # <<>>
    /\ LET q == pool[worker[w].pool].idle IN
       /\ worker' = [worker EXCEPT ![w].pc = "take", ![w].conn = q[Len(q)]]
       /\ pool' = [pool EXCEPT ![worker[w].pool].idle = SubSeq(q, 1, Len(q) - 1)]
    /\ UNCHANGED <<cfg, conn, reader, inbox, agent, srv, req>>

\* A receive that leaves the connection in the queue.
WorkerPeek(w) ==
    /\ worker[w].pc = "recv"
    /\ pool[worker[w].pool].idle # <<>>
    /\ worker' = [worker EXCEPT ![w].pc = "take", ![w].conn = Head(pool[worker[w].pool].idle)]
    /\ UNCHANGED <<cfg, conn, reader, inbox, agent, pool, srv, req>>

\* `conn := <-pool.idle`
WorkerRecv(w) ==
    /\ worker[w].pc = "recv"
    /\ pool[worker[w].pool].idle # <<>>
    /\ worker' = [worker EXCEPT ![w].pc = "take", ![w].conn = Head(pool[worker[w].pool].idle)]
    /\ pool' = [pool EXCEPT ![worker[w].pool].idle = Tail(@)]
    /\ UNCHANGED <<cfg, conn, reader, inbox, agent, srv, req>>

\* `conn.Take()`: on success the connection goes to the request
\* (`request.connection <- connection`) and the worker returns; otherwise
\* the worker starts over with the lookup.
WorkerTake(w) ==
    /\ worker[w].pc = "take"
    /\ LET s == worker[w].conn
           r == worker[w].req IN
       /\ ~Locked(s)
       /\ conn' = [conn EXCEPT ![s] = Take(conn[s])]
       /\ IF TakeOK(conn[s])
          THEN /\ req' = [req EXCEPT ![r].pc = "s1", ![r].conn = s]
               /\ worker' = [worker EXCEPT ![w] = IdleWorker]
          ELSE /\ worker' = [worker EXCEPT ![w].pc = "ask", ![w].pool = 0, ![w].conn = 0]
               /\ UNCHANGED req
    /\ UNCHANGED <<cfg, reader, inbox, agent, pool, srv>>

\* ======================================================== HandleRequest
\* The handler has returned: what the caller got.
Done(q, code, outcome) ==
    [q EXCEPT !.pc = "done", !.code = code, !.outcome = outcome, !.target = NoID]

\* What the caller's body is made of: bytes of the agent's body frame, and
\* the text of an error message.
AgentBytes == "agent"
ErrorText == "error"

\* Server.ProxyError: http.Error. Its WriteHeader(526) sets the status
\* unless a head is out already (then it is dropped as superfluous), and
\* its Fprintln writes the error's text to the body in either case.
ProxyError(q, outcome) ==
    Done([q EXCEPT !.body = Append(@, ErrorText)],
         IF q.head THEN q.code ELSE ProxyErrorCode, outcome)

\* An entry that goes to the dispatcher without looking at len(s.pools).
HandleRequestSubmits(r) ==
    /\ req[r].pc = "new"
    /\ IF r = 1 THEN TRUE ELSE req[r - 1].pc # "new"
    /\ req' = [req EXCEPT ![r].pc = "submit", ![r].target = AgentID]
    /\ UNCHANGED <<cfg, conn, reader, inbox, agent, pool, srv, worker>>

\* Server.getClientID for a request whose id header holds t: without
\* Config.IDHeader the target is "" and there is no error.
getClientID(t) ==
    IF cfg.idHeader THEN [target |-> t, err |-> t = NoID]
    ELSE [target |-> NoID, err |-> FALSE]

\* The entry of the handler up to `s.dispatcher <- request`:
\* len(s.pools) == 0, then getClientID.
HandleRequest(r) ==
    /\ req[r].pc = "new"
    /\ IF r = 1 THEN TRUE ELSE req[r - 1].pc # "new"
    /\ \E t \in Targets :
         LET id == getClientID(t) IN
         req' = [req EXCEPT ![r] =
                    IF NoPools THEN ProxyError(@, "nopools")
                    ELSE IF id.err THEN ProxyError(@, "noid")
                    ELSE [@ EXCEPT !.pc = "submit", !.target = id.target]]
    /\ UNCHANGED <<cfg, conn, reader, inbox, agent, pool, srv, worker>>

\* `connection := <-request.connection` returned nil.
NoTarget(r) ==
    /\ req[r].pc = "nilreply"
    /\ req' = [req EXCEPT ![r] = ProxyError(@, "notarget")]
    /\ UNCHANGED <<cfg, conn, reader, inbox, agent, pool, srv, worker>>

\* ---------------------------------------------------------- proxyRequest
\* Writing to, or reading a frame from, a closed or broken socket fails.
Broken(s) == conn[s].sockCloses > 0 \/ agent[s].down

\* Step 1, sendProxyRequestBody: the request's text and binary frames are
\* written to the socket.
SendRequest(r) ==
    /\ req[r].pc = "s1"
    /\ LET s == req[r].conn IN
       \/ /\ conn[s].sockCloses = 0
          /\ agent' = [agent EXCEPT ![s].reqs = Append(@, r)]
          /\ req' = [req EXCEPT ![r].pc = "s2h"]
       \/ /\ Broken(s)
          /\ req' = [req EXCEPT ![r].pc = "fail"]
          /\ UNCHANGED agent
    /\ UNCHANGED <<cfg, conn, reader, inbox, pool, srv, worker>>

HandoffPc == {"s2h", "s4h"}

\* A hand-off after which the reader is back at the top of its loop
\* without waiting for the slot to be closed.
HandoffNoWait(r) ==
    /\ req[r].pc \in {"s2h", "s4h"}
    /\ LET s == req[r].conn IN
       /\ conn[s].chanCloses = 0
       /\ reader[s].pc = "slot"
       /\ reader' = [reader EXCEPT ![s].pc = "next", ![s].slot = r]
    /\ req' = [req EXCEPT ![r].pc = IF @ = "s2h" THEN "s2read" ELSE "s4read"]
    /\ UNCHANGED <<cfg, conn, inbox, agent, pool, srv, worker>>

\* getNextResponse, `case c.nextResponse <- ioCh`, taken by the reader's
\* `resp = <-c.nextResponse`; then the reader's `resp <- reader` is taken by
\* `responseReader := <-responseChannel`, and the reader waits on `<-resp`.
Handoff(r) ==
    /\ req[r].pc \in HandoffPc
    /\ LET s == req[r].conn IN
       /\ conn[s].chanCloses = 0
       /\ reader[s].pc = "slot"
       /\ reader' = [reader EXCEPT ![s].pc = "hold", ![s].slot = r]
    /\ req' = [req EXCEPT ![r].pc = IF @ = "s2h" THEN "s2read" ELSE "s4read"]
    /\ UNCHANGED <<cfg, conn, inbox, agent, pool, srv, worker>>

\* getNextResponse, `case <-ctx.Done()`: the caller gave up, and the
\* error "http client gave up waiting for remote" is returned.
GaveUp(r) ==
    /\ req[r].pc \in HandoffPc
    /\ req' = [req EXCEPT ![r].pc = "fail", ![r].err = "gaveup"]
    /\ UNCHANGED <<cfg, conn, reader, inbox, agent, pool, srv, worker>>

\* getNextResponse, the send on the closed c.nextResponse: it panics,
\* catchProxyPanic recovers, and getNextResponse returns its zero result,
\* a nil error, with no slot handed to anyone. The caller goes on to
\* `<-responseChannel`, on which nobody sends.
HandoffPanic(r) ==
    /\ req[r].pc \in HandoffPc
    /\ conn[req[r].conn].chanCloses > 0
    /\ req' = [req EXCEPT ![r].pc = IF @ = "s2h" THEN "s2recv" ELSE "s4recv"]
    /\ UNCHANGED <<cfg, conn, reader, inbox, agent, pool, srv, worker>>

\* The deferred close(responseChannel): the reader's `<-resp` returns and
\* it is back at the top of its loop.
ReleaseReader(r) ==
    reader' = [reader EXCEPT ![req[r].conn] = StoppedReader("next")]

\* json.Unmarshal of the metadata frame.
Parses(f) == f.kind = "meta" /\ f.json

\* A step 3 that writes the head before it knows that the metadata parses.
sendResponseToClientEarly(q, f) ==
    [q EXCEPT !.pc = IF Parses(f) THEN "s4h" ELSE "fail", !.head = TRUE, !.code = f.code]

\* Step 3, sendResponseToClient: the head goes out only if the metadata
\* parses.
sendResponseToClient(q, f) ==
    IF Parses(f) THEN [q EXCEPT !.pc = "s4h", !.head = TRUE, !.code = f.code]
    ELSE [q EXCEPT !.pc = "fail"]

\* Step 2 from io.ReadAll(responseReader) on, with the release of the
\* reader, then step 3.
ReadMeta(r) ==
    /\ req[r].pc = "s2read"
    /\ LET s == req[r].conn
           f == reader[s].frame IN
       \/ req' = [req EXCEPT ![r] = sendResponseToClient([@ EXCEPT !.got = Append(@, f)], f)]
       \/ /\ Broken(s)
          /\ req' = [req EXCEPT ![r].pc = "fail"]
    /\ ReleaseReader(r)
    /\ UNCHANGED <<cfg, conn, inbox, agent, pool, srv, worker>>

\* Step 4 from io.Copy(resp, responseBodyReader) on, with the release of
\* the reader.
CopyBody(r) ==
    /\ req[r].pc = "s4read"
    /\ LET s == req[r].conn IN
       \/ req' = [req EXCEPT ![r].pc = "give", ![r].got = Append(@, reader[s].frame),
                              ![r].body = Append(@, AgentBytes)]
       \/ /\ Broken(s)
          /\ req' = [req EXCEPT ![r].pc = "fail"]
    /\ ReleaseReader(r)
    /\ UNCHANGED <<cfg, conn, inbox, agent, pool, srv, worker>>

\* c.Release() at the end of proxyRequest, which is Give: the part of Give
\* before the channel send.
Give(r) ==
    /\ req[r].pc = "give"
    /\ LET s == req[r].conn
           g == conn[s].pool
           gc == GiveCheck(conn[s], IdleLen(g), PoolCap(g)) IN
       /\ ~Locked(s)
       /\ Closing([conn EXCEPT ![s] = gc.c])
       /\ req' = [req EXCEPT ![r] = IF gc.send THEN [@ EXCEPT !.pc = "give2"]
                                    ELSE Done(@, @.code, "ok")]
    /\ UNCHANGED <<cfg, reader, pool, srv, worker>>

\* A Give after whose send the handler is still to send.
GiveSendAgain(r) ==
    /\ req[r].pc = "give2"
    /\ LET s == req[r].conn
           g == conn[s].pool IN
       /\ IdleLen(g) < PoolCap(g)
       /\ pool' = [pool EXCEPT ![g].idle = Append(@, s)]
       /\ conn' = [conn EXCEPT ![s] = Sent(@)]
    /\ UNCHANGED <<cfg, reader, inbox, agent, srv, worker, req>>

\* The send `c.pool.idle <- c` of Give, which waits while the queue is
\* full, and the deferred c.lock.Unlock().
GiveSend(r) ==
    /\ req[r].pc = "give2"
    /\ LET s == req[r].conn
           g == conn[s].pool IN
       /\ IdleLen(g) < PoolCap(g)
       /\ pool' = [pool EXCEPT ![g].idle = Append(@, s)]
       /\ conn' = [conn EXCEPT ![s] = Sent(@)]
    /\ req' = [req EXCEPT ![r] = Done(@, @.code, "ok")]
    /\ UNCHANGED <<cfg, reader, inbox, agent, srv, worker>>

\* A handler that gives the connection back to the pool after a failed
\* exchange, where the code closes it.
ProxyFailedGives(r) ==
    /\ req[r].pc = "fail"
    /\ LET s == req[r].conn
           g == conn[s].pool IN
       /\ ~Locked(s)
       /\ conn[s].status # "closed"
       /\ IdleLen(g) < PoolCap(g)
       /\ conn' = [conn EXCEPT ![s].status = "idle"]
       /\ pool' = [pool EXCEPT ![g].idle = Append(@, s)]
    /\ req' = [req EXCEPT ![r] = ProxyError(@, "failed")]
    /\ UNCHANGED <<cfg, reader, inbox, agent, srv, worker>>

\* HandleRequest when proxyRequest returned an error:
\* connection.Close("proxy error"), then s.ProxyError.
ProxyFailed(r) ==
    /\ req[r].pc = "fail"
    /\ ~Locked(req[r].conn)
    /\ Close(req[r].conn)
    /\ req' = [req EXCEPT ![r] = ProxyError(@, "failed")]
    /\ UNCHANGED <<cfg, reader, pool, srv, worker>>

\* The positions of a handler between the delivery of a connection and
\* the end of its exchange (Give done, or Close done).
InFlight == {"s1", "s2h", "s2recv", "s2read", "s4h", "s4recv", "s4read",
             "give", "give2", "fail"}
\* The requests whose exchange is in flight on socket s.
Holders(s) == {r \in Reqs : req[r].conn = s /\ req[r].pc \in InFlight}

\* ================================================================= Init
\* The state after NewServer for a run of ns sockets with the greetings
\* `greet`, nr requests and nw workers.
InitServer(ns, nr, nw, idHeader, greet) ==
    /\ cfg = [socks |-> ns, reqs |-> nr, workers |-> nw,
              idHeader |-> idHeader, greet |-> greet]
    /\ conn = [s \in 1..ns |-> [status |-> "none", pool |-> 0, locked |-> FALSE,
                                chanCloses |-> 0, sockCloses |-> 0, given |-> 0,
                  requests |-> 0]]
    /\ reader = [s \in 1..ns |-> [pc |-> "off", frame |-> NoFrame, slot |-> 0]]
    /\ inbox = [s \in 1..ns |-> <<>>]
    /\ pool = [g \in 1..ns |-> [idle |-> <<>>, conns |-> <<>>, closed |-> 0,
                                done |-> FALSE, pc |-> "none", arg |-> 0,
                                newConnClosed |-> FALSE,
                                handshake |-> NoHandshake,
                                cap |-> 0, minSize |-> 0]]
    /\ srv = [poolMap |-> [k \in {HashKeyID(Client(greet[s]).secret, Client(greet[s]).id) :
                                    s \in {x \in 1..ns : Greeted(greet[x])}} |-> 0],
              made |-> 0, nreg |-> 0, closed |-> 0,
              cpc |-> "loop", cs |-> 0, cg |-> 0, todo |-> {},
              newPoolClosed |-> FALSE, dispClosed |-> FALSE,
              chClosed |-> FALSE, count |-> 0, ask |-> 0]
    /\ worker = [w \in 1..nw |-> [pc |-> "idle", req |-> 0, pool |-> 0, conn |-> 0]]
    /\ req = [r \in 1..nr |-> [pc |-> "new", target |-> NoID, conn |-> 0, got |-> <<>>,
                               code |-> 0, head |-> FALSE, body |-> <<>>,
                               outcome |-> "none", err |-> "none"]]

\* The same with a peer of which only what it sends is looked at.
InitCfg(ns, nr, nw, idHeader, greet) ==
    /\ InitServer(ns, nr, nw, idHeader, greet)
    /\ agent = [s \in 1..ns |-> [reqs |-> <<>>, down |-> FALSE]]

\* A run with an id header configured and every socket of one agent.
InitWith(ns, nr, nw) == InitCfg(ns, nr, nw, TRUE, [s \in 1..ns |-> DefaultGreeting])

Init == InitWith(MaxSocks, MaxReqs, Dispatchers)

\* ================================================================= Next
Environment ==
    \/ \E s \in Socks : AgentAnswer(s)
    \/ \E s \in Socks : AgentHangup(s)
    \/ \E r \in Reqs : HandleRequest(r)
    \/ \E r \in Reqs : GaveUp(r)

Coordinator ==
    \/ registerPool
    \/ RegisterGive
    \/ RegisterConn
    \/ cleanPools
    \/ IsEmpty
    \/ \E w \in Workers : GetPool(w)

PoolKeeper ==
    \E g \in Pools : PoolNewConn(g)

Dispatch ==
    \/ \E r \in Reqs, w \in Workers : Submit(r, w)
    \/ \E w \in Workers : WorkerNoPool(w)
    \/ \E w \in Workers : WorkerRecv(w)
    \/ \E w \in Workers : WorkerTake(w)

Readers ==
    \/ \E s \in Socks : ReaderStop(s)
    \/ \E s \in Socks : ReaderNext(s)
    \/ \E s \in Socks : ReaderUnlocked(s)
    \/ \E s \in Socks : ReaderExit(s)

Exchange ==
    \/ \E r \in Reqs : NoTarget(r)
    \/ \E r \in Reqs : SendRequest(r)
    \/ \E r \in Reqs : Handoff(r)
    \/ \E r \in Reqs : HandoffPanic(r)
    \/ \E r \in Reqs : ReadMeta(r)
    \/ \E r \in Reqs : CopyBody(r)
    \/ \E r \in Reqs : Give(r)
    \/ \E r \in Reqs : GiveSend(r)
    \/ \E r \in Reqs : ProxyFailed(r)

Next == Environment \/ Coordinator \/ PoolKeeper \/ Dispatch \/ Readers \/ Exchange

Spec == Init /\ [][Next]_vars

\* ============================================================ properties
\* ------------------------------------------------------------------- C1
OneHolder ==
    \A s \in Socks :
        /\ Cardinality(Holders(s)) <= 1
        /\ Holders(s) # {} /\ conn[s].status = "idle" => Locked(s)

DeliveredByTake ==
    \A r \in Reqs :
        req'[r].conn # req[r].conn =>
            /\ req[r].conn = 0
            /\ Holders(req'[r].conn) = {}
            /\ conn[req'[r].conn].status = "idle"
            /\ conn'[req'[r].conn].status = "busy"

\* C1: on every socket at most one exchange is in flight at any time, and
\* the socket of an exchange in flight is not Idle (but for the end of Give,
\* under the socket's lock); a socket is delivered to a request only by a
\* Take that found it Idle and made it Busy, and only when no exchange is
\* in flight on it.
C1_OneExchangePerSocket == []OneHolder /\ [][DeliveredByTake]_vars

\* An exchange is in flight on a Busy socket while a worker waits on the
\* idle queue of the same pool for another request.
C1_Witness ==
    \E s \in Socks, w \in Workers :
        /\ Holders(s) # {}
        /\ conn[s].status = "busy"
        /\ worker[w].pc = "recv"
        /\ worker[w].pool = conn[s].pool
        /\ worker[w].req \notin Holders(s)

\* ------------------------------------------------------------------- C2
\* The frames handed to request r so far are the agent's answer to r, in
\* the agent's order.
AnswerOf(r) ==
    LET g == req[r].got IN
    /\ Len(g) <= 2
    /\ \A i \in 1..Len(g) :
          /\ g[i].req = r
          /\ g[i].kind = IF i = 1 THEN "meta" ELSE "body"

\* C2: every frame handed to a request is a frame the agent sent in answer
\* to that request, never one sent for another exchange; an exchange that
\* completes has handed over the agent's metadata frame and then its body
\* frame, and the caller got the metadata's status and the body's bytes.
C2_FramesOfOwnExchange ==
    \A r \in Reqs :
        /\ AnswerOf(r)
        /\ req[r].outcome = "ok" =>
              /\ Len(req[r].got) = 2
              /\ Parses(req[r].got[1])
              /\ req[r].code = req[r].got[1].code
              /\ req[r].body = <<AgentBytes>>

\* Two exchanges completed one after the other on the same socket.
C2_Witness ==
    \E r1, r2 \in Reqs :
        /\ r1 # r2
        /\ req[r1].outcome = "ok"
        /\ req[r2].outcome = "ok"
        /\ req[r1].conn = req[r2].conn

\* ------------------------------------------------------------------- C3
\* The sizes of the run in which dispatch is followed to its end.
FairSocks == 1
FairReqs == 2
FairWorkers == 1

FairInit == InitWith(FairSocks, FairReqs, FairWorkers)

\* The steps of one goroutine each.
WorkerStep(w) ==
    \/ \E r \in Reqs : Submit(r, w)
    \/ WorkerNoPool(w)
    \/ WorkerRecv(w)
    \/ WorkerTake(w)
HandlerStep(r) ==
    \/ NoTarget(r) \/ SendRequest(r) \/ Handoff(r) \/ HandoffPanic(r)
    \/ ReadMeta(r) \/ CopyBody(r) \/ Give(r) \/ GiveSend(r) \/ ProxyFailed(r)
ReaderStep(s) ==
    \/ ReaderStop(s) \/ ReaderNext(s) \/ ReaderUnlocked(s) \/ ReaderExit(s)

\* A goroutine of the server that can take a step again and again takes
\* it in the end (the scheduler starves nobody, and a select picks among
\* its ready cases at random), and the cleaner's ticker keeps firing.
\* Nothing is asked of the agent or of the callers.
FairSpec ==
    /\ FairInit
    /\ [][Next]_vars
    /\ \A w \in 1..FairWorkers : SF_vars(WorkerStep(w))
    /\ \A w \in 1..FairWorkers : SF_vars(GetPool(w))
    /\ \A r \in 1..FairReqs : SF_vars(HandlerStep(r))
    /\ \A s \in 1..FairSocks : SF_vars(ReaderStep(s))
    /\ \A g \in 1..FairSocks : SF_vars(PoolNewConn(g))
    /\ SF_vars(RegisterGive) /\ SF_vars(RegisterConn)
    /\ SF_vars(cleanPools) /\ SF_vars(IsEmpty)

\* C3: every request handed to the dispatcher is answered in the end: its
\* handler gets a connection or a closed reply slot.
C3_DispatchAnswered ==
    \A r \in 1..FairReqs : (req[r].pc = "await") ~> (req[r].pc # "await")

\* A worker waits on the empty idle queue of a pool whose socket is Busy
\* with another request.
C3_Witness ==
    \E w \in Workers, s \in Socks :
        /\ worker[w].pc = "recv"
        /\ req[worker[w].req].pc = "await"
        /\ pool[worker[w].pool].idle = <<>>
        /\ conn[s].pool = worker[w].pool
        /\ conn[s].status = "busy"

\* ------------------------------------------------------------------- C4
NoPoolReply ==
    /\ \A w \in Workers :
         /\ worker[w].pc = "ask" /\ worker'[w].pc # "ask" =>
              (worker'[w].pc = "nopool" <=>
                 (\A k \in DOMAIN srv.poolMap :
                      k = req[worker[w].req].target => srv.poolMap[k] = 0))
         /\ worker[w].pc = "nopool" /\ worker'[w].pc # "nopool" =>
              /\ conn' = conn
              /\ pool' = pool
              /\ req'[worker[w].req].pc = "nilreply"
              /\ req'[worker[w].req].conn = 0
    /\ \A r \in Reqs :
         req[r].pc = "nilreply" /\ req'[r].pc # "nilreply" =>
              /\ conn' = conn
              /\ req'[r].pc = "done"
              /\ req'[r].code = ProxyErrorCode
              /\ req'[r].outcome = "notarget"

NoPoolNeverWaits ==
    /\ \A w \in Workers : worker[w].pc = "nopool" => ENABLED WorkerNoPool(w)
    /\ \A r \in Reqs : req[r].pc = "nilreply" => ENABLED NoTarget(r)

\* C4: a lookup for an id that has no pool in the map is answered with no
\* pool, and then the worker closes the reply slot without a socket, at
\* once and leaving every socket and every idle queue as they were; the
\* handler then returns 526 for "no proxy target found".
C4_NoTarget == []NoPoolNeverWaits /\ [][NoPoolReply]_vars

\* A request for an id nobody registered got 526 while a pool of another
\* id is registered.
C4_Witness ==
    \E r \in Reqs :
        /\ req[r].outcome = "notarget"
        /\ req[r].code = ProxyErrorCode
        /\ ~NoPools

\* ------------------------------------------------------------------- C5
NoPoolsReply ==
    \A r \in Reqs :
        req[r].pc = "new" /\ req'[r].pc # "new" /\ NoPools =>
            /\ req'[r].pc = "done"
            /\ req'[r].outcome = "nopools"
            /\ req'[r].code = ProxyErrorCode
            /\ req'[r].conn = 0
            /\ worker' = worker

C6_StatusOfFailedExchange ==
    \A r \in Reqs :
        req[r].outcome = "failed" =>
            IF req[r].head
            THEN /\ Parses(req[r].got[1])
                 /\ req[r].code = req[r].got[1].code
                 /\ \A i \in 1..Len(req[r].body) : req[r].body[i] = AgentBytes
            ELSE req[r].code = ProxyErrorCode

\* An exchange failed after the agent's head had gone out to the caller.
C6_Witness ==
    \E r \in Reqs : req[r].outcome = "failed" /\ req[r].head

\* The status alone: 526 when no head was out, the agent's status when it
\* was.
C6_StatusOnly ==
    \A r \in Reqs :
        req[r].outcome = "failed" =>
            IF req[r].head
            THEN Parses(req[r].got[1]) /\ req[r].code = req[r].got[1].code
            ELSE req[r].code = ProxyErrorCode

\* ------------------------------------------------------------------- C7
BusyHasHandler == \A s \in Socks : conn[s].status = "busy" => Holders(s) # {}

ReturnLeavesNotBusy ==
    \A r \in Reqs :
        req[r].pc \in InFlight /\ req'[r].pc = "done" =>
            LET s == req[r].conn IN
            /\ conn'[s].status # "busy"
            /\ req'[r].outcome = "failed" => conn'[s].status = "closed"
            /\ req'[r].outcome = "ok" =>
                 \/ conn'[s].status = "closed"
                 \/ /\ conn'[s].status = "idle"
                    /\ s \in Members(pool'[conn[s].pool].idle)

ClosedStays ==
    /\ \A s \in Socks :
         conn[s].status = "closed" =>
             [conn'[s] EXCEPT !.requests = conn[s].requests] = conn[s]
    /\ \A w \in Workers :
         /\ worker[w].pc = "take"
         /\ conn[worker[w].conn].status = "closed"
         /\ worker'[w] # worker[w]
         => req' = req /\ worker'[w].pc = "ask"
    /\ \A r \in Reqs :
         /\ req[r].pc = "give"
         /\ conn[req[r].conn].status = "closed"
         /\ req'[r] # req[r]
         => pool' = pool /\ req'[r].pc = "done"

\* C8: a Closed socket stays Closed, with its channel and its socket closed
\* once, under every step of every goroutine; Take on a Closed socket
\* delivers nothing and Give on a Closed socket puts nothing in the idle
\* queue.
C8_ClosedIsTerminal == [][ClosedStays]_vars

\* A successful exchange ended with Give on a socket that the reader had
\* closed: the socket is Closed and not in the idle queue.
C8_Witness ==
    \E r \in Reqs :
        /\ req[r].outcome = "ok"
        /\ conn[req[r].conn].status = "closed"
        /\ reader[req[r].conn].pc = "done"
        /\ req[r].conn \notin Members(pool[conn[req[r].conn].pool].idle)

GiveSocks == 4
GiveReqs == 1
GiveWorkers == 1

GiveInit == InitWith(GiveSocks, GiveReqs, GiveWorkers)

GiveNext ==
    \/ registerPool
    \/ RegisterGive
    \/ RegisterConn
    \/ \E g \in Pools : PoolNewConn(g)
    \/ \E w \in Workers : GetPool(w)
    \/ \E r \in Reqs : HandleRequest(r)
    \/ \E r \in Reqs, w \in Workers : Submit(r, w)
    \/ \E w \in Workers : WorkerNoPool(w)
    \/ \E w \in Workers : WorkerRecv(w)
    \/ \E w \in Workers : WorkerTake(w)
    \/ \E r \in Reqs : NoTarget(r)
    \/ \E r \in Reqs : SendRequest(r)
    \/ \E s \in Socks : AgentAnswer(s)
    \/ \E s \in Socks : ReaderNext(s)
    \/ \E r \in Reqs : Handoff(r)
    \/ \E r \in Reqs : ReadMeta(r)
    \/ \E r \in Reqs : CopyBody(r)
    \/ \E r \in Reqs : Give(r)
    \/ \E r \in Reqs : GiveSend(r)

SpecGive == GiveInit /\ [][GiveNext]_vars

\* C10: a Give that is at its channel send, holding the socket's lock,
\* finds room in the idle queue: it does not wait.
C10_GiveNeverWaits ==
    /\ \A r \in Reqs :
         req[r].pc = "give2" =>
            IdleLen(conn[req[r].conn].pool) < PoolCap(conn[req[r].conn].pool)
    /\ srv.cpc = "reggive" => IdleLen(srv.cg) < PoolCap(srv.cg)

\* Two Gives on sockets of one pool are past the capacity check at once.
C10_Witness ==
    /\ srv.cpc = "reggive"
    /\ \E r \in Reqs : req[r].pc = "give2" /\ conn[req[r].conn].pool = srv.cg

\* ------------------------------------------------------------------ C11
\* C11: in every reachable state the idle queue of every pool that was
\* made holds at most as many entries as its capacity, and the capacity is
\* 3 times the max of the handshake the pool was made with.
C11_IdleQueueBound ==
    \A g \in Pools :
        pool[g].pc # "none" =>
            /\ Len(pool[g].idle) <= pool[g].cap
            /\ pool[g].cap = 3 * pool[g].handshake.max

\* A pool's idle queue is full, and a socket that registered after it
\* filled up was closed by its first Give.
C11_Witness ==
    \E g \in Pools, s \in Socks :
        /\ pool[g].handshake.max > 0
        /\ Len(pool[g].idle) = pool[g].cap
        /\ conn[s].pool = g
        /\ conn[s].status = "closed"
        /\ s \notin Members(pool[g].idle)

\* ------------------------------------------------------------------ C12
\* The number of entries of a queue that are socket s.
Entries(q, s) == Cardinality({i \in 1..Len(q) : q[i] = s})
InQueue(s) == conn[s].pool # 0 /\ s \in Members(pool[conn[s].pool].idle)
InHand(s) == \E w \in Workers : worker[w].pc = "take" /\ worker[w].conn = s

\* C12 (amended): every entry of a pool's idle queue is a socket of that
\* pool that is Idle or Closed, never Busy, and no socket has two entries;
\* an Idle socket with no entry is in the hand of a worker that received
\* it and has not called Take yet, or is inside Give, under its lock, with
\* the send to the queue still to come.
C12_QueueEntries ==
    /\ \A g \in Pools, s \in Socks :
          s \in Members(pool[g].idle) =>
              /\ conn[s].pool = g
              /\ conn[s].status \in {"idle", "closed"}
              /\ Entries(pool[g].idle, s) = 1
    /\ \A s \in Socks :
          conn[s].status = "idle" /\ ~InQueue(s) => InHand(s) \/ Locked(s)

\* One socket is Closed and still in its pool's idle queue while another,
\* Idle, has been received by a worker and is in no queue.
C12_Witness ==
    \E a, b \in Socks :
        /\ conn[a].status = "closed" /\ InQueue(a)
        /\ conn[b].status = "idle" /\ ~InQueue(b) /\ InHand(b) /\ ~Locked(b)

\* C12 as stated: a socket is in its pool's idle queue exactly when it is
\* Idle.
C12_QueuedIffIdle ==
    \A s \in Socks : InQueue(s) <=> conn[s].status = "idle"

\* ------------------------------------------------------------------ C13
\* Worker w receives a socket from an idle queue in this step.
Receives(w) == worker[w].pc = "recv" /\ worker'[w].pc = "take"
\* Worker w's Take succeeds in this step.
Takes(w) ==
    /\ worker[w].pc = "take"
    /\ worker'[w].pc # "take"
    /\ conn[worker[w].conn].status = "idle"
    /\ conn'[worker[w].conn].status = "busy"
\* Socket a's Give completed before socket b's, in the same pool.
GivenBefore(a, b) ==
    /\ a # b
    /\ conn[a].pool = conn[b].pool
    /\ conn[a].given < conn[b].given

ReceivedInGiveOrder ==
    \A w \in Workers :
        Receives(w) =>
            /\ worker'[w].conn = Head(pool[worker[w].pool].idle)
            /\ pool'[worker[w].pool].idle = Tail(pool[worker[w].pool].idle)
            /\ \A x \in Members(pool[worker[w].pool].idle) :
                   ~GivenBefore(x, worker'[w].conn)

QueuedInGiveOrder ==
    \A g \in Pools : \A i, j \in 1..Len(pool[g].idle) :
        i < j => conn[pool[g].idle[i]].given < conn[pool[g].idle[j]].given

\* C13 (amended): within one pool, sockets are received from the idle
\* queue in the order their Gives completed: the queue holds its entries
\* in that order, and a worker's receive hands out the entry whose Give
\* completed first.
C13_ReceivedInGiveOrder == []QueuedInGiveOrder /\ [][ReceivedInGiveOrder]_vars

\* Two sockets of one pool, given one after the other and both Idle, are
\* in the hands of two workers, and neither has called Take yet.
C13_Witness ==
    \E v, w \in Workers :
        /\ v # w
        /\ worker[v].pc = "take" /\ worker[w].pc = "take"
        /\ GivenBefore(worker[v].conn, worker[w].conn)
        /\ conn[worker[v].conn].status = "idle" /\ ~Locked(worker[v].conn)
        /\ conn[worker[w].conn].status = "idle" /\ ~Locked(worker[w].conn)

TakeInGiveOrder ==
    \A w \in Workers :
        Takes(w) =>
            ~\E a \in Socks :
                /\ GivenBefore(a, worker[w].conn)
                /\ conn[a].status = "idle"
                /\ ~Locked(a)

\* C13 as stated: a Take never succeeds on a socket while another socket
\* of the same pool, whose Give completed earlier, is still Idle.
C13_TakeInGiveOrder == [][TakeInGiveOrder]_vars

\* ------------------------------------------------- registrations (C14-C16)
\* Runs of two registrations drawn from greetings of two ids under no
\* secret or one of two secrets, with a size within the max or above it,
\* and a greeting that lacks a field; nobody hangs up and the cleaner's
\* ticker does not fire.
RegSocks == 2
RegReqs == 1
RegWorkers == 1
RegIDs == {AgentID, <<"c">>}
RegSecrets == {NoSecret, <<"k">>, <<"l">>}
RegSizes == {<<0, 1>>, <<1, 2>>, <<2, 1>>}     \* <<size, max>>
RegGreetings ==
    {Registration(<<i, sm[1], sm[2]>>, k) : i \in RegIDs, sm \in RegSizes, k \in RegSecrets}
        \cup {Registration(<<AgentID, 0>>, NoSecret)}

RegInit ==
    \E greet \in [1..RegSocks -> RegGreetings] :
        InitCfg(RegSocks, RegReqs, RegWorkers, TRUE, greet)

RegNext == GiveNext \/ RejectGreeting

SpecReg == RegInit /\ [][RegNext]_vars

\* ------------------------------------------------------------------ C14
\* The coordinator takes the next registration in this step.
Registers == srv.cpc = "loop" /\ srv'.cpc \in {"reggive", "regconn"} /\ srv'.nreg # srv.nreg

RegisterAttaches ==
    Registers =>
        LET s == srv'.nreg
            k == KeyOf(s)
            g == srv.poolMap[k]
        IN /\ \A x \in Socks \ {s} : conn'[x] = conn[x]
           /\ \A j \in DOMAIN srv.poolMap \ {k} : srv'.poolMap[j] = srv.poolMap[j]
           /\ IF g # 0
              THEN /\ srv'.poolMap[k] = g
                   /\ srv'.made = srv.made
                   /\ conn'[s].pool = g
                   /\ pool' = pool
              ELSE /\ srv'.poolMap[k] = srv.made + 1
                   /\ srv'.made = srv.made + 1
                   /\ conn'[s].pool = srv.made + 1
                   /\ pool[srv.made + 1].pc = "none"
                   /\ pool'[srv.made + 1].handshake = Handshake(Client(cfg.greet[s]))
                   /\ \A h \in Pools \ {srv.made + 1} : pool'[h] = pool[h]

\* The new socket's own entry is appended to the queue, after the entries
\* that were there.
RegisterAppends ==
    srv.cpc = "reggive" /\ srv'.cpc # "reggive" =>
        /\ pool' = [pool EXCEPT ![srv.cg].idle = Append(@, srv.cs)]
        /\ \A x \in Socks \ {srv.cs} : conn'[x] = conn[x]

ClaimedKey(c) == IF c.secret = NoSecret THEN c.id ELSE Sha256Hex(c.secret \o c.id)
Registered == {s \in Socks : conn[s].status # "none"}

\* C15: a registered socket is in the pool that the map holds under the
\* id itself when the secret is empty, and under the hex digest of the
\* hash of secret followed by id otherwise; registrations with the same
\* secret and id are in the same pool, and registrations with the same id
\* and different non-empty secrets are in different pools.
C15_PoolKey ==
    /\ \A s \in Registered :
          LET key == ClaimedKey(Client(cfg.greet[s])) IN
          /\ key \in DOMAIN srv.poolMap
          /\ srv.poolMap[key] = conn[s].pool
    /\ \A a, b \in Registered :
          LET ca == Client(cfg.greet[a])
              cb == Client(cfg.greet[b]) IN
          /\ ca.secret = cb.secret /\ ca.id = cb.id => conn[a].pool = conn[b].pool
          /\ ca.id = cb.id /\ ca.secret # cb.secret
                /\ ca.secret # NoSecret /\ cb.secret # NoSecret
                => conn[a].pool # conn[b].pool

\* Two sockets of the same id registered under different non-empty
\* secrets, each Idle in the queue of a pool of its own.
C15_Witness ==
    \E a, b \in Registered :
        /\ Client(cfg.greet[a]).id = Client(cfg.greet[b]).id
        /\ Client(cfg.greet[a]).secret # NoSecret
        /\ Client(cfg.greet[b]).secret # NoSecret
        /\ Client(cfg.greet[a]).secret # Client(cfg.greet[b]).secret
        /\ conn[a].pool # conn[b].pool
        /\ pool[conn[a].pool].idle = <<a>>
        /\ pool[conn[b].pool].idle = <<b>>

\* ------------------------------------------------------------------ C16
\* The greeting of socket s parses and declares a size above its max, or
\* a negative size.
BadSizes(s) ==
    /\ Greeted(cfg.greet[s])
    /\ ~(0 <= Client(cfg.greet[s]).size /\ Client(cfg.greet[s]).size <= Client(cfg.greet[s]).max)

\* C16: for a registration whose greeting declares a size above its max
\* no Connection is made, no pool is made and no pool takes the socket.
C16_BadSizesRejected ==
    \A s \in Socks :
        BadSizes(s) =>
            /\ conn[s].status = "none"
            /\ \A g \in Pools : s \notin Members(pool[g].idle) /\ s \notin Members(pool[g].conns)
            /\ \A g \in Pools : pool[g].pc # "none" => pool[g].handshake.size <= pool[g].handshake.max

\* A pool was made from a greeting with size 2 and max 1, and the socket
\* of that greeting is Idle in its queue and among its connections.
C16_Witness ==
    \E s \in Socks :
        /\ BadSizes(s)
        /\ conn[s].status = "idle"
        /\ pool[conn[s].pool].handshake.size > pool[conn[s].pool].handshake.max
        /\ s \in Members(pool[conn[s].pool].idle)
        /\ s \in Members(pool[conn[s].pool].conns)

\* ------------------------------------------------------------------ C17
\* The server without Config.IDHeader: every dispatch request carries the
\* empty client id. The steps are those such a run can take.
AnySocks == 2
AnyReqs == 2
AnyWorkers == 2

AnyInit == InitCfg(AnySocks, AnyReqs, AnyWorkers, FALSE, [s \in 1..AnySocks |-> DefaultGreeting])

AnyNext ==
    \/ registerPool
    \/ RegisterGive
    \/ RegisterConn
    \/ cleanPools
    \/ IsEmpty
    \/ \E g \in Pools : PoolNewConn(g)
    \/ \E w \in Workers : GetPool(w)
    \/ \E r \in Reqs : HandleRequest(r)
    \/ \E r \in Reqs, w \in Workers : Submit(r, w)
    \/ \E w \in Workers : WorkerNoPool(w)
    \/ \E r \in Reqs : NoTarget(r)
    \/ \E s \in Socks : AgentHangup(s)
    \/ \E s \in Socks : ReaderStop(s)
    \/ \E s \in Socks : ReaderExit(s)

SpecAny == AnyInit /\ [][AnyNext]_vars

\* Some pool of the map has an Idle socket in its idle queue.
SomeIdle ==
    \E k \in Pooled : \E s \in Members(pool[srv.poolMap[k]].idle) :
        conn[s].status = "idle" /\ ~Locked(s)

AnyPoolMatches ==
    \A w \in Workers :
        /\ worker[w].pc = "ask"
        /\ worker'[w].pc # "ask"
        /\ req[worker[w].req].target = NoID
        /\ SomeIdle
        => worker'[w].pc \in {"recv", "take"}

\* C17: without an id header, the lookup of a dispatch request made while
\* some pool has an Idle socket in its queue leads the worker to a pool's
\* idle queue, not to the reply for a missing pool.
C17_AnyPoolMatches == [][AnyPoolMatches]_vars

\* Without an id header a request was answered 526 for a missing proxy
\* target while a registered pool has an Idle socket in its queue.
C17_Witness ==
    /\ ~cfg.idHeader
    /\ SomeIdle
    /\ \E r \in Reqs : req[r].outcome = "notarget" /\ req[r].code = ProxyErrorCode

\* ============================================================== shutdown
\* Server.Shutdown: close(s.newPool).
Shutdown ==
    /\ ~srv.newPoolClosed
    /\ srv' = [srv EXCEPT !.newPoolClosed = TRUE]
    /\ UNCHANGED <<cfg, conn, reader, inbox, agent, pool, worker, req>>

\* The coordinator's `case newPool, ok := <-s.newPool: if !ok { return }`
\* and the start of the deferred shutdown(): close(s.dispatcher).
CoordReturn ==
    /\ srv.cpc = "loop"
    /\ srv.newPoolClosed
    /\ srv' = [srv EXCEPT !.cpc = "drain", !.dispClosed = TRUE]
    /\ UNCHANGED <<cfg, conn, reader, inbox, agent, pool, worker, req>>

\* A worker's `for r := range s.dispatcher` ends on the closed channel.
WorkerDrained(w) ==
    /\ worker[w].pc = "idle"
    /\ srv.dispClosed
    /\ worker' = [worker EXCEPT ![w].pc = "signal"]
    /\ UNCHANGED <<cfg, conn, reader, inbox, agent, pool, srv, req>>

\* shutdown(): one `<-s.getPool` of its counting loop takes a worker's
\* final `s.getPool <- nil`.
DrainSignal(w) ==
    /\ srv.cpc = "drain"
    /\ srv.count < cfg.workers
    /\ worker[w].pc = "signal"
    /\ srv' = [srv EXCEPT !.count = @ + 1]
    /\ worker' = [worker EXCEPT ![w].pc = "exited"]
    /\ UNCHANGED <<cfg, conn, reader, inbox, agent, pool, req>>

\* shutdown(): one `<-s.getPool` of its counting loop takes the lookup
\* `s.getPool <- &getPoolRequest{...}` of a worker in dispatchRequest, which
\* goes on to `pool := <-s.repPool`.
DrainLookup(w) ==
    /\ srv.cpc = "drain"
    /\ srv.count < cfg.workers
    /\ worker[w].pc = "ask"
    /\ srv' = [srv EXCEPT !.count = @ + 1]
    /\ worker' = [worker EXCEPT ![w].pc = "rep"]
    /\ UNCHANGED <<cfg, conn, reader, inbox, agent, pool, req>>

\* shutdown() after the counting loop: close(s.getPool), close(s.repPool)
\* and the stats channels.
CoordClose ==
    /\ srv.cpc = "drain"
    /\ srv.count = cfg.workers
    /\ srv' = [srv EXCEPT !.cpc = "pools", !.chClosed = TRUE]
    /\ UNCHANGED <<cfg, conn, reader, inbox, agent, pool, worker, req>>

\* shutdown(), `for target, pool := range s.pools`: pool.Shutdown(), which
\* is close(pool.newConn), and delete(s.pools, target); StartDispatcher
\* returns.
CoordPools ==
    /\ srv.cpc = "pools"
    /\ pool' = [g \in Pools |->
                  IF \E k \in Pooled : srv.poolMap[k] = g
                  THEN [pool[g] EXCEPT !.newConnClosed = TRUE] ELSE pool[g]]
    /\ srv' = [srv EXCEPT !.cpc = "exited", !.poolMap = [k \in DOMAIN @ |-> 0]]
    /\ UNCHANGED <<cfg, conn, reader, inbox, agent, worker, req>>

\* `pool := <-s.repPool` on the closed channel: nil, so dispatchRequest
\* returns and its deferred close(request.connection) runs.
WorkerRepClosed(w) ==
    /\ worker[w].pc = "rep"
    /\ srv.chClosed
    /\ req' = [req EXCEPT ![worker[w].req].pc = "nilreply"]
    /\ worker' = [worker EXCEPT ![w] = IdleWorker]
    /\ UNCHANGED <<cfg, conn, reader, inbox, agent, pool, srv>>

\* A worker's send on the closed s.getPool, of its final nil or of a
\* lookup: the goroutine panics (in dispatchRequest the deferred
\* close(request.connection) runs on the way out).
WorkerPanic(w) ==
    /\ worker[w].pc \in {"signal", "ask"}
    /\ srv.chClosed
    /\ req' = IF worker[w].pc = "ask"
              THEN [req EXCEPT ![worker[w].req].pc = "nilreply"] ELSE req
    /\ worker' = [worker EXCEPT ![w] = [IdleWorker EXCEPT !.pc = "panic"]]
    /\ UNCHANGED <<cfg, conn, reader, inbox, agent, pool, srv>>

\* HandleRequest's `s.dispatcher <- request` on the closed channel: the
\* handler panics and the caller gets no response.
HandlerPanic(r) ==
    /\ req[r].pc = "submit"
    /\ srv.dispClosed
    /\ req' = [req EXCEPT ![r] = Done(@, @.code, "panic")]
    /\ UNCHANGED <<cfg, conn, reader, inbox, agent, pool, srv, worker>>

\* Pool.keepRunning, `case conn, ok := <-pool.newConn: if !ok { return }`
\* and the deferred Pool.shutdown: every connection of pool.connections
\* is closed with Connection.Close.
PoolStop(g) ==
    /\ pool[g].pc = "select"
    /\ pool[g].newConnClosed
    /\ NoneLocked(pool[g].conns)
    /\ Closing([s \in Socks |-> IF s \in Members(pool[g].conns) THEN close(conn[s]) ELSE conn[s]])
    /\ pool' = [pool EXCEPT ![g].pc = "stopped", ![g].done = TRUE]
    /\ UNCHANGED <<cfg, reader, srv, worker, req>>

ShutSocks == 1
ShutReqs == 1
ShutWorkers == 2

ShutInit == InitWith(ShutSocks, ShutReqs, ShutWorkers)

\* The steps of the coordinator in shutdown(), and of a worker once the
\* dispatcher channel is closed.
CoordShutdown ==
    \/ CoordReturn
    \/ CoordClose
    \/ CoordPools
    \/ \E w \in Workers : DrainSignal(w)
    \/ \E w \in Workers : DrainLookup(w)
WorkerShutdown(w) ==
    \/ WorkerDrained(w)
    \/ WorkerRepClosed(w)
    \/ WorkerPanic(w)

ShutNext ==
    \/ Next
    \/ Shutdown
    \/ CoordShutdown
    \/ \E w \in Workers : WorkerShutdown(w)
    \/ \E r \in Reqs : HandlerPanic(r)
    \/ \E g \in Pools : PoolStop(g)

\* The coordinator's steps in which it has no choice to make.
CoordStep ==
    \/ RegisterGive \/ RegisterConn \/ IsEmpty
    \/ CoordClose \/ CoordPools
    \/ \E w \in Workers : DrainSignal(w)
    \/ \E w \in Workers : DrainLookup(w)

\* The run with a shutdown in it. A goroutine that can take a step takes
\* it in the end, and each case of the coordinator's select that is ready
\* again and again (a lookup, the ticker, the closed newPool) is taken in
\* the end. Nothing is asked of the agent or of the callers.
SpecShutdown ==
    /\ ShutInit
    /\ [][ShutNext]_vars
    /\ \A w \in 1..ShutWorkers : WF_vars(WorkerStep(w) \/ WorkerShutdown(w))
    /\ \A r \in 1..ShutReqs : WF_vars(HandlerStep(r) \/ HandlerPanic(r))
    /\ \A s \in 1..ShutSocks : WF_vars(ReaderStep(s))
    /\ \A g \in 1..ShutSocks : WF_vars(PoolNewConn(g) \/ PoolStop(g))
    /\ WF_vars(CoordStep)
    /\ \A w \in 1..ShutWorkers : SF_vars(GetPool(w))
    /\ SF_vars(cleanPools)
    /\ SF_vars(CoordReturn)

\* ------------------------------------------------------------------ C18
Finished == {w \in Workers : worker[w].pc = "exited"}

\* C18: the coordinator closes getPool and repPool only when every worker
\* has finished, the values it has counted as done signals are as many as
\* the workers that sent their final signal, and no worker and no handler
\* has sent on a closed channel.
C18_ShutdownCascade ==
    /\ srv.chClosed => Finished = Workers
    /\ srv.count = Cardinality(Finished)
    /\ \A w \in Workers : worker[w].pc # "panic"
    /\ \A r \in Reqs : req[r].outcome # "panic"

\* The coordinator has counted a done signal for every worker and closed
\* getPool and repPool, and a worker whose lookup was counted as one has
\* then sent on the closed getPool.
C18_Witness ==
    /\ srv.chClosed
    /\ srv.count = cfg.workers
    /\ \E w \in Workers : worker[w].pc = "panic"
    /\ Finished # Workers

\* ------------------------------------------------------------------ C19
\* The coordinator is through shutdown(), every worker and every pool's
\* goroutine has returned, and every socket that was registered is Closed.
Terminated ==
    /\ srv.cpc = "exited"
    /\ Finished = Workers
    /\ \A g \in Pools : pool[g].pc \in {"none", "stopped"}
    /\ \A s \in Socks : conn[s].status \in {"none", "closed"}

\* A goroutine has sent on a closed channel: the panic ends the process.
Crashed ==
    \/ \E w \in Workers : worker[w].pc = "panic"
    \/ \E r \in Reqs : req[r].outcome = "panic"

\* C19: once Shutdown has been called, the shutdown completes in the end:
\* the coordinator, every worker and every pool's goroutine return and
\* every socket ends Closed. Runs that a send on a closed channel has
\* ended before that are left to C18.
C19_ShutdownCompletes == srv.newPoolClosed ~> (Terminated \/ Crashed)

\* The coordinator waits in shutdown() for the done signals while a worker
\* waits on the empty idle queue of a pool whose only socket is Closed.
C19_Witness ==
    /\ srv.cpc = "drain"
    /\ \E w \in Workers :
          /\ worker[w].pc = "recv"
          /\ pool[worker[w].pool].idle = <<>>
          /\ \A s \in Socks : conn[s].status = "closed"
          /\ \A r \in Reqs : req[r].pc \in {"done", "await"}

\* ------------------------------------------------------------------ C20
\* The caller of request r gives up in this step.
GivesUp(r) == req[r].err # "gaveup" /\ req'[r].err = "gaveup"

GaveUpReturns ==
    \A r \in Reqs :
        GivesUp(r) =>
            /\ req[r].pc \in HandoffPc
            /\ req'[r].pc = "fail"
            /\ UNCHANGED <<conn, reader, inbox, agent>>

GaveUpNeverWaits ==
    \A r \in Reqs :
        /\ req[r].pc \in HandoffPc => ENABLED GaveUp(r)
        /\ req[r].pc = "fail" /\ ~Locked(req[r].conn) => ENABLED ProxyFailed(r)

\* C20: wherever an exchange waits to hand a slot to the reader, in step 2
\* or in step 4, the caller's cancellation can be taken at once and makes
\* proxyRequest return the error, whatever the agent and the reader do;
\* the handler then closes the socket and answers with the error, and the
\* socket's reader returns.
C20_GaveUpCloses ==
    /\ []GaveUpNeverWaits
    /\ [][GaveUpReturns]_vars
    /\ \A r \in 1..FairReqs :
          (req[r].err = "gaveup") ~>
              /\ req[r].pc = "done"
              /\ req[r].outcome = "failed"
              /\ conn[req[r].conn].status = "closed"
              /\ reader[req[r].conn].pc = "done"

\* The caller gave up in step 4, after the head went out, while the
\* reader held the body frame and waited for a slot: the socket is Closed
\* and the reader has returned.
C20_Witness ==
    \E r \in Reqs :
        /\ req[r].err = "gaveup"
        /\ req[r].pc = "done"
        /\ req[r].head
        /\ conn[req[r].conn].status = "closed"
        /\ conn[req[r].conn].chanCloses = 1
        /\ reader[req[r].conn].pc = "done"

\* ------------------------------------------------------------------ C21
\* The exchange of request r is at a hand-off of step 2 or step 4, or past
\* the recovered panic of one, on a socket that has been closed.
ClosedAtHandoff(r) ==
    /\ req[r].pc \in HandoffPc \cup {"s2recv", "s4recv"}
    /\ conn[req[r].conn].status = "closed"

\* C21: an exchange that is at a hand-off of step 2 or step 4 when its
\* socket is Closed by another goroutine ends: the handler returns and the
\* caller has the error's response.
C21_ClosedHandoffEnds ==
    \A r \in 1..FairReqs :
        ClosedAtHandoff(r) ~> (req[r].pc = "done" /\ req[r].outcome = "failed")

\* The reader closed the socket and returned while the exchange was at a
\* hand-off; the send on the closed channel panicked, the panic was
\* recovered, and the exchange waits on its own slot, on which nobody is
\* left to send.
C21_Witness ==
    \E r \in Reqs :
        /\ req[r].pc \in {"s2recv", "s4recv"}
        /\ conn[req[r].conn].chanCloses = 1
        /\ reader[req[r].conn].pc = "done"
        /\ req[r].err = "none"

\* ------------------------------------------------------------------ C22
\* The run in which the reaper has idle sockets to choose from: three
\* sockets of one agent, whose greeting asks for 0 or for 1 idle sockets.
ReapSocks == 3
ReapReqs == 1
ReapWorkers == 1
ReapSizes == {0, 1}

ReapInit ==
    \E size \in ReapSizes :
        InitCfg(ReapSocks, ReapReqs, ReapWorkers, TRUE,
                [s \in 1..ReapSocks |->
                    Registration(<<AgentID, size, HandshakeMax>>, NoSecret)])

ReapNext ==
    \/ GiveNext
    \/ cleanPools
    \/ IsEmpty
    \/ \E s \in Socks : AgentHangup(s)
    \/ \E s \in Socks : ReaderStop(s)
    \/ \E s \in Socks : ReaderExit(s)

SpecReap == ReapInit /\ [][ReapNext]_vars

\* This step is a reap pass (Pool.clean) over the sockets of pool g.
PassOn(g) ==
    \/ pool[g].pc = "new" /\ pool'[g].pc = "select"
    \/ /\ srv.cpc = "askclean"
       /\ \E k \in srv.todo : k \notin srv.todo' /\ srv.poolMap[k] = g

\* The positions of a pool's socket set that hold an Idle socket, and how
\* many of them come at or before position i.
IdleAt(list) == {i \in 1..Len(list) : conn[list[i]].status = "idle"}
IdleRank(list, i) == Cardinality({j \in IdleAt(list) : j <= i})
Least(a, b) == IF a <= b THEN a ELSE b

ReapPass ==
    \A g \in Pools :
        PassOn(g) =>
            LET list == pool[g].conns
                reaped == {i \in IdleAt(list) : conn'[list[i]].status = "closed"}
                left == IdleAt(list) \ reaped
            IN /\ pool[g].minSize = pool[g].handshake.size + 1
               /\ \A i \in 1..Len(list) :
                     conn[list[i]].status = "busy" =>
                        /\ conn'[list[i]] = conn[list[i]]
                        /\ list[i] \in Members(pool'[g].conns)
               /\ \A i \in reaped : IdleRank(list, i) > pool[g].minSize
               /\ \A i \in left :
                     /\ conn'[list[i]].status = "idle"
                     /\ list[i] \in Members(pool'[g].conns)
               /\ Cardinality(left) >= Least(pool[g].minSize, Cardinality(IdleAt(list)))

\* A socket that has not been idle for longer than the timeout is left as
\* it is, wherever it comes in the pass.
YoungKept ==
    \A s \in Socks, seen \in 0..cfg.socks, m \in 1..(cfg.socks + 1) :
        cleanConnection(conn[s], seen, m, FALSE).c = conn[s]

\* C22: a reap pass leaves every Busy socket as it is and in the set; with
\* min_idle = handshake size + 1 it closes an Idle socket only if more than
\* min_idle Idle sockets come at or before it in the set's order and it
\* has been idle for longer than the timeout; the Idle sockets it does not
\* close stay Idle and in the set, and they are at least
\* min(min_idle, the Idle sockets before the pass).
C22_ReapKeepsMinIdle == []YoungKept /\ [][ReapPass]_vars

\* With size 1 a pass over three Idle sockets closed the third, and the
\* first two are still Idle and in the set.
C22_Witness ==
    \E g \in Pools, s \in Socks :
        /\ pool[g].handshake.size = 1
        /\ pool[g].conns = <<1, 2>>
        /\ conn[1].status = "idle" /\ conn[2].status = "idle"
        /\ conn[s].pool = g
        /\ conn[s].status = "closed"
        /\ reader[s].pc = "next"
        /\ ~agent[1].down /\ ~agent[2].down
        /\ pool[g].closed = 1
        /\ \A r \in Reqs : req[r].outcome # "failed"

\* ------------------------------------------------------------------ C23
RECURSIVE SumOver(_, _)
\* The sum of f[g] over the pools g of S.
SumOver(S, f) ==
    IF S = {} THEN 0
    ELSE LET g == CHOOSE x \in S : TRUE IN f[g] + SumOver(S \ {g}, f)

\* The pools of the map, the sockets in their sets, and the closed total
\* cleanPools reports: the live pools' counters and the server's.
Mapped == {srv.poolMap[k] : k \in Pooled}
InSets == SumOver(Mapped, [g \in Pools |-> Len(pool[g].conns)])
ClosedTotal == srv.closed + SumOver(Mapped, [g \in Pools |-> pool[g].closed])
EverRegistered == Cardinality({s \in Socks : conn[s].status # "none"})

\* This step ends a cleanPools pass.
PassEnds == srv.cpc = "askclean" /\ srv'.cpc = "loop"

CountedOnce ==
    /\ PassEnds => EverRegistered' = InSets' + ClosedTotal'
    /\ ClosedTotal' >= ClosedTotal

\* C23: at the end of every cleanPools pass the sockets ever registered
\* are the sockets in the sets of the pools in the map plus the closed
\* total (the live pools' closed counters plus the server's count for the
\* pools it reaped), and the closed total never decreases.
C23_ClosedCountedOnce == [][CountedOnce]_vars

\* Between passes: one pool was reaped with its closed socket counted by
\* the server, and the pool made after it has dropped a closed socket and
\* still holds one.
C23_Witness ==
    /\ srv.cpc = "loop"
    /\ srv.closed = 1
    /\ \E g \in Mapped : pool[g].closed = 1 /\ Len(pool[g].conns) = 1 /\ pool[g].pc = "select"
    /\ EverRegistered = 3

\* ------------------------------------------------------------------ C24
\* Pool g is shut down: Pool.Shutdown has closed its newConn channel.
ShutDown(g) == pool[g].newConnClosed
\* The sockets of pool g, in its set or not.
SocketsOf(g) == {s \in Socks : conn[s].pool = g}

\* The step in which IsEmpty is answered for pool g.
Asked(g) ==
    /\ srv.cpc = "askclean"
    /\ \E k \in srv.todo : k \notin srv.todo' /\ srv.poolMap[k] = g

EmptyRemoved ==
    \A g \in Pools :
        /\ Asked(g) =>
              IF pool'[g].conns = <<>>
              THEN /\ ShutDown(g)'
                   /\ g \notin Mapped'
                   /\ pool'[g].pc = "stopped"
              ELSE /\ ~ShutDown(g)'
                   /\ g \in Mapped'
                   /\ pool'[g].pc = "select"
        /\ (ShutDown(g)' /\ ~ShutDown(g)) \/ (g \in Mapped /\ g \notin Mapped') =>
              /\ Asked(g)
              /\ \A s \in SocketsOf(g) : conn'[s].status = "closed"

\* A pool of the map with an empty set is a pool just made, whose first
\* socket is on its way into the set.
NoEmptyPoolLeft ==
    \A g \in Mapped :
        pool[g].conns = <<>> => pool[g].pc = "new" \/ srv.cg = g

\* C24: a pool whose set is empty after its reap pass in cleanPools is
\* shut down and taken out of the map in that pass, so that no pool with
\* an empty set is left in the map; a pool whose set is not empty stays in
\* the map and is not shut down; and a pool is shut down or taken out of
\* the map only by such a pass and only when every socket of it is Closed.
C24_EmptyPoolsRemoved == []NoEmptyPoolLeft /\ [][EmptyRemoved]_vars

\* One pool was found empty, shut down and taken out of the map; the pool
\* made after it has been through a pass that dropped a Closed socket and
\* kept it in the map with its Idle socket.
C24_Witness ==
    \E g1, g2 \in Pools :
        /\ ShutDown(g1) /\ g1 \notin Mapped
        /\ \A s \in SocketsOf(g1) : conn[s].status = "closed"
        /\ g2 \in Mapped /\ ~ShutDown(g2)
        /\ pool[g2].closed > 0
        /\ \E s \in Members(pool[g2].conns) : conn[s].status = "idle"

\* ------------------------------------------------------------------ C25
\* The run in which a socket is closed while the others of its pool go on:
\* four sockets of one agent, one of which hangs up, and the cleaner's
\* ticker firing.
TickSocks == 4
TickReqs == 1
TickWorkers == 1
TickHangups == {2}

TickInit == InitWith(TickSocks, TickReqs, TickWorkers)

TickNext ==
    \/ GiveNext
    \/ cleanPools
    \/ IsEmpty
    \/ \E s \in TickHangups : AgentHangup(s)
    \/ \E s \in Socks : ReaderStop(s)
    \/ \E s \in Socks : ReaderUnlocked(s)
    \/ \E s \in Socks : ReaderExit(s)
    \/ \E r \in Reqs : ProxyFailed(r)

\* A goroutine that can take a step takes it in the end, each case of the
\* coordinator's select that is ready again and again (a lookup, the
\* ticker) is taken in the end, and the ticker keeps firing. Nothing is
\* asked of the agent or of the callers.
SpecTick ==
    /\ TickInit
    /\ [][TickNext]_vars
    /\ \A w \in 1..TickWorkers : WF_vars(WorkerStep(w))
    /\ \A r \in 1..TickReqs : WF_vars(HandlerStep(r))
    /\ \A s \in 1..TickSocks : WF_vars(ReaderStep(s))
    /\ \A g \in 1..TickSocks : WF_vars(PoolNewConn(g))
    /\ WF_vars(RegisterGive \/ RegisterConn \/ IsEmpty)
    /\ \A w \in 1..TickWorkers : SF_vars(GetPool(w))
    /\ SF_vars(cleanPools)

\* Socket s is Closed and still in its pool's set, or on its way into it.
ClosedInSet(s) ==
    /\ conn[s].status = "closed"
    /\ \/ s \in Members(pool[conn[s].pool].conns)
       \/ pool[conn[s].pool].arg = s
       \/ srv.cs = s

\* C25: a socket that hangs up and becomes Closed is taken out of its
\* pool's socket set in the end by a reap pass.
C25_ClosedDropped ==
    \A s \in TickHangups : (conn[s].status = "closed") ~> ~ClosedInSet(s)

\* A socket is Closed and in its pool's set; the idle queue is full, and
\* the coordinator is inside the Give of a new socket, at its send to the
\* queue, so that it does not get to the cleaner's tick.
C25_Witness ==
    \E s \in Socks :
        /\ conn[s].status = "closed"
        /\ reader[s].pc = "done"
        /\ s \in Members(pool[conn[s].pool].conns)
        /\ srv.cpc = "reggive"
        /\ srv.cg = conn[s].pool
        /\ IdleLen(srv.cg) = PoolCap(srv.cg)
        /\ \A r \in Reqs : req[r].pc = "done"

\* ------------------------------------------------------------------ C26
\* The run in which the agent sends frames nobody asked for; it does not
\* hang up, so that a reader returns only for such a frame or because the
\* handler closed the socket.
WildSocks == 2
WildReqs == 2
WildWorkers == 1

WildInit == InitWith(WildSocks, WildReqs, WildWorkers)

WildNext ==
    \/ GiveNext
    \/ \E s \in Socks : AgentWild(s)
    \/ \E s \in Socks : ReaderStop(s)
    \/ \E s \in Socks : ReaderUnlocked(s)
    \/ \E s \in Socks : ReaderExit(s)
    \/ \E r \in Reqs : HandoffPanic(r)
    \/ \E r \in Reqs : ProxyFailed(r)

SpecWild == WildInit /\ [][WildNext]_vars

\* The reader of socket s takes a frame off the socket in this step.
ReadsFrame(s) == reader[s].pc = "next" /\ inbox[s] # <<>> /\ inbox'[s] = Tail(inbox[s])
\* Socket s is delivered to a request in this step.
Delivered(s) == \E r \in Reqs : req[r].conn # s /\ req'[r].conn = s

UnexpectedFrameCloses ==
    \A s \in Socks :
        /\ ReadsFrame(s) /\ conn[s].status # "busy" =>
              /\ reader'[s].pc = "exit"
              /\ reader'[s].frame = NoFrame
        /\ reader[s].pc = "exit" /\ reader'[s] # reader[s] =>
              /\ reader'[s].pc = "done"
              /\ conn'[s].status = "closed"
        /\ Delivered(s) =>
              /\ conn[s].status = "idle"
              /\ reader[s].pc # "done"

ReaderClosesUnhindered ==
    \A s \in Socks :
        /\ reader[s].pc = "exit" /\ ~Locked(s) => ENABLED ReaderExit(s)
        /\ reader[s].pc = "done" => conn[s].status = "closed"

Reading(s) == {r \in Reqs : req[r].conn = s /\ req[r].pc \in {"s2read", "s4read"}}

OneFrameReader ==
    \A s \in Socks :
        /\ Cardinality(Reading(s)) <= 1
        /\ Reading(s) # {} <=> reader[s].pc = "hold"
        /\ reader[s].pc = "hold" =>
              /\ Reading(s) = {reader[s].slot}
              /\ reader[s].frame # NoFrame

ReaderWaitsForSlot ==
    /\ \A s \in Socks :
          \* A frame is taken off the open socket only by the reader, at
          \* the top of its loop, with no frame reader outstanding.
          /\ inbox[s] # <<>> /\ inbox'[s] = Tail(inbox[s]) /\ conn'[s].sockCloses = 0 =>
                /\ reader[s].pc = "next"
                /\ Reading(s) = {}
                /\ req' = req
          \* The reader leaves its wait when the exchange closes the slot.
          /\ reader[s].pc = "hold" /\ reader'[s] # reader[s] =>
                /\ reader'[s].pc = "next"
                /\ reader[s].slot \notin Reading(s)'
                /\ inbox' = inbox
    /\ \A r \in Reqs :
          \* What an exchange reads is the frame its reader handed over.
          req'[r].got # req[r].got =>
              /\ r \in Reading(req[r].conn)
              /\ req'[r].got = Append(req[r].got, reader[req[r].conn].frame)

\* C27: on every socket at most one frame reader is outstanding: while an
\* exchange holds one, the socket's reader waits and takes no frame off
\* the socket until that exchange has closed the slot, and an exchange
\* reads nothing but the frame the reader handed to it.
C27_OneFrameReader == []OneFrameReader /\ [][ReaderWaitsForSlot]_vars

\* An exchange holds the metadata's frame reader while the body frame is
\* on the socket and the reader waits for the slot to be closed.
C27_Witness ==
    \E s \in Socks, r \in Reqs :
        /\ reader[s].pc = "hold"
        /\ reader[s].slot = r
        /\ req[r].pc = "s2read"
        /\ reader[s].frame.kind = "meta"
        /\ Len(inbox[s]) = 1
        /\ inbox[s][1].kind = "body"

\* ------------------------------------------------------------------ C28
\* The positions of a handler in proxyRequest, by step: 1 (send the
\* request), 2 (receive the metadata; step 3, the head, ends the same
\* position), 4 (receive the body), and Give.
StepOf(pc) ==
    CASE pc = "s1" -> 1
      [] pc \in {"s2h", "s2recv", "s2read"} -> 2
      [] pc \in {"s4h", "s4recv", "s4read"} -> 4
      [] pc \in {"give", "give2"} -> 5
      [] OTHER -> 0

\* How far the exchange of a request has come, read off what it has done.
StepsSoFar ==
    \A r \in Reqs :
        /\ StepOf(req[r].pc) = 1 => req[r].got = <<>> /\ ~req[r].head
        /\ StepOf(req[r].pc) = 2 => req[r].got = <<>> /\ ~req[r].head /\ req[r].body = <<>>
        /\ StepOf(req[r].pc) = 4 =>
              /\ Len(req[r].got) = 1 /\ req[r].head /\ req[r].body = <<>>
        /\ StepOf(req[r].pc) = 5 =>
              /\ Len(req[r].got) = 2 /\ req[r].head /\ req[r].body = <<AgentBytes>>
        /\ req[r].head =>
              /\ Len(req[r].got) >= 1
              /\ Parses(req[r].got[1])
              /\ req[r].code = req[r].got[1].code \/ req[r].pc = "done"
        /\ req[r].outcome = "ok" => Len(req[r].got) = 2 /\ req[r].head

StepsInOrder ==
    \A r \in Reqs :
        LET a == req[r].pc
            b == req'[r].pc
        IN /\ a # b /\ StepOf(a) > 0 =>
                 \/ StepOf(b) >= StepOf(a) /\ StepOf(b) <= StepOf(a) + 2 /\ StepOf(b) # 3
                 \/ b = "fail"
                 \/ StepOf(a) = 5 /\ b = "done" /\ req'[r].outcome = "ok"
           \* The request goes to the agent in step 1 and in no other.
           /\ (\E s \in Socks : Len(agent'[s].reqs) > Len(agent[s].reqs)
                                /\ agent'[s].reqs[Len(agent'[s].reqs)] = r) => a = "s1"
           \* The head goes out at the end of step 2, for a metadata frame
           \* that was read and parses.
           /\ req'[r].head /\ ~req[r].head =>
                 /\ a = "s2read" /\ b = "s4h"
                 /\ Len(req'[r].got) = 1 /\ Parses(req'[r].got[1])
           \* A failed step is the exchange's last: the handler closes the
           \* socket and answers; nothing more is read and no Give follows.
           /\ a = "fail" /\ req'[r] # req[r] =>
                 /\ b = "done"
                 /\ req'[r].outcome = "failed"
                 /\ req'[r].got = req[r].got
                 /\ conn'[req[r].conn].status = "closed"
                 /\ pool' = pool
           \* Give follows step 4 and nothing else.
           /\ b = "give" /\ a # "give" => a = "s4read" /\ Len(req'[r].got) = 2

\* C28: the steps of an exchange happen in order: the request is sent,
\* then the metadata frame is received, then the head is written to the
\* caller, then the body is received; nothing is written to the caller
\* before the metadata has been read and has parsed, a step that fails is
\* the last one, and Give is called only after step 4 went through.
C28_StepsInOrder == []StepsSoFar /\ [][StepsInOrder]_vars

\* One exchange failed in step 2 on a metadata frame that does not parse:
\* no head went out and the caller has the error alone; another went
\* through its four steps and Give.
C28_Witness ==
    \E r1, r2 \in Reqs :
        /\ req[r1].outcome = "failed"
        /\ Len(req[r1].got) = 1 /\ ~Parses(req[r1].got[1])
        /\ ~req[r1].head
        /\ req[r1].body = <<ErrorText>>
        /\ req[r2].outcome = "ok"
        /\ Len(req[r2].got) = 2

\* ------------------------------------------------------------------ C29
\* The reader of socket s has returned, its deferred Close included.
ReaderGone(s) == reader[s].pc = "done"

ReaderGoneIsClosed ==
    \A s \in Socks : ReaderGone(s) => conn[s].status = "closed"

\* C29: a socket whose reader has returned is Closed, and once a socket is
\* Closed, by whichever goroutine, its reader returns in the end, whether
\* it was waiting for a frame, for a slot on the hand-off channel, or for
\* an exchange to close the slot it holds.
C29_ReaderAndClosed ==
    /\ []ReaderGoneIsClosed
    /\ \A s \in 1..ShutSocks : (conn[s].status = "closed") ~> ReaderGone(s)

\* The pool's shutdown closed a socket whose reader waits for the
\* exchange to close the slot it was handed.
C29_Witness ==
    \E s \in Socks :
        /\ conn[s].status = "closed"
        /\ reader[s].pc = "hold"
        /\ req[reader[s].slot].pc \in {"s2read", "s4read"}
        /\ pool[conn[s].pool].pc = "stopped"

\* ------------------------------------------------------------------ C30
\* This step is the coordinator's: a case of its select, or the next step
\* of the registration or of the cleanPools pass it is in.
CoordinatorActs == srv' # srv

\* The first step of a handler, before its request has gone to the
\* dispatcher: nothing has come to it from the coordinator yet.
FirstStep(r) == req[r].pc = "new" /\ req'[r] # req[r]

MapConfined ==
    \* The map changes in the coordinator's steps and in no others.
    /\ srv.poolMap' # srv.poolMap => CoordinatorActs
    \* A worker learns of a pool by the coordinator's reply to its lookup.
    /\ \A w \in Workers :
          worker'[w].pool # worker[w].pool /\ worker'[w].pool # 0 =>
              /\ worker[w].pc = "ask"
              /\ srv.cpc = "loop"
    \* A handler's first step says nothing about the map: "no pools
    \* registered" is an answer only a look at the map gives.
    /\ \A r \in Reqs : FirstStep(r) => req'[r].outcome # "nopools"

\* C30: the pool map is changed by the coordinator alone, and what a
\* worker or a handler knows of it comes from the coordinator's reply to a
\* lookup; no handler looks at the map itself.
C30_MapConfined == [][MapConfined]_vars

\* One handler found the map empty and another found it not empty, each by
\* its own look at it, the second while the coordinator is still inside
\* registerPool.
C30_Witness ==
    \E r1, r2 \in Reqs :
        /\ req[r1].outcome = "nopools"
        /\ req[r2].pc = "submit"
        /\ srv.cpc \in {"reggive", "regconn"}
        /\ \A w \in Workers : worker[w].pc = "idle"

\* ------------------------------------------------------------------ C31
\* The pool's goroutine ends `case conn, ok := <-pool.newConn` in this step.
NewConnDone(g) == pool[g].pc = "new" /\ pool'[g].pc = "select"

QueueDrained ==
    \A g \in Pools :
        NewConnDone(g) =>
            \A s \in Members(pool'[g].idle) : conn'[s].status = "idle"

\* C31: when the pool's goroutine has processed the registration of a new
\* socket, every entry of the pool's idle queue is an Idle socket: the
\* entries of Closed sockets are gone from the queue.
C31_QueueDrained == [][QueueDrained]_vars

\* The pool's goroutine has processed a registration, its pass has dropped
\* a Closed socket from the set and counted it, and the entry of that
\* socket is still in the idle queue.
C31_Witness ==
    \E g \in Pools, s \in Socks :
        /\ pool[g].pc = "select"
        /\ pool[g].closed > 0
        /\ Len(pool[g].conns) > 0
        /\ conn[s].status = "closed"
        /\ s \notin Members(pool[g].conns)
        /\ s \in Members(pool[g].idle)

\* ------------------------------------------------------------------ C32
\* The exchanges dispatched to socket s: a request is given its socket by
\* a successful Take, once, and keeps it.
Dispatched(s) == Cardinality({r \in Reqs : req[r].conn = s})

\* C32: the request count of every socket (c.requests, which the close log
\* and the stats show) is the number of exchanges dispatched to the socket,
\* the number of successful Takes on it.
C32_RequestsAreExchanges ==
    \A s \in Socks : conn[s].requests = Dispatched(s)

\* A Closed socket that is still in its pool's set, where the stats list
\* it, has a request counted and no exchange was ever dispatched to it.
C32_Witness ==
    \E s \in Socks :
        /\ conn[s].status = "closed"
        /\ s \in Members(pool[conn[s].pool].conns)
        /\ conn[s].requests = 1
        /\ Dispatched(s) = 0

\* ------------------------------------------------------------------ C33
\* The agent's side of a socket, Connection.serve of the client: it reads
\* a request (the server's text frame, which is JSON, and its binary frame)
\* and hands it to the handler: Config.Handler when one is set, otherwise
\* the http client of defaultHandler.
ServeSocks == 1
ServeReqs == 2
ServeWorkers == 1

\* What a custom handler does with its ResponseWriter.
HandlerCalls == {<<>>, <<"WriteHeader">>, <<"Write">>,
                 <<"WriteHeader", "Write">>, <<"Write", "Write">>}

ServeInit ==
    /\ InitServer(ServeSocks, ServeReqs, ServeWorkers, TRUE,
                  [s \in 1..ServeSocks |-> DefaultGreeting])
    /\ \E custom \in BOOLEAN :
         agent = [s \in 1..ServeSocks |->
                    [reqs |-> <<>>, down |-> FALSE, apc |-> "read", cur |-> 0,
                     sent |-> <<>>, failed |-> FALSE, custom |-> custom]]

\* serve returns and the connection is closed and removed from the pool.
ServeReturns(a) == [a EXCEPT !.down = TRUE, !.apc = "closed"]

\* serveHandler up to `return handler(req)`: ReadMessage, json.Unmarshal
\* and NextReader for the request's body.
serveHandler(s) ==
    /\ ~agent[s].down
    /\ agent[s].apc = "read"
    /\ agent[s].reqs # <<>>
    /\ agent' = [agent EXCEPT ![s].apc = "handle", ![s].cur = Head(agent[s].reqs),
                              ![s].reqs = Tail(@), ![s].sent = <<>>,
                              ![s].failed = FALSE]
    /\ UNCHANGED <<cfg, conn, reader, inbox, pool, srv, worker, req>>

\* Connection.error: the metadata with ClientErrorCode as a text frame and
\* the message as a binary frame.
error(r) == <<Frame(r, "meta", [json |-> TRUE, code |-> ClientErrorCode]),
              Frame(r, "body", Body)>>

\* defaultHandler: client.Do(req); when it fails, `!connection.error(...)`
\* keeps serve going; otherwise writeResponseHeaders sends the metadata.
defaultHandler(s) ==
    /\ ~agent[s].down
    /\ agent[s].apc = "handle"
    /\ ~agent[s].custom
    /\ \E done \in BOOLEAN :
         LET r == agent[s].cur
             out == IF done THEN <<Frame(r, "meta", [json |-> TRUE, code |-> 200])>>
                    ELSE error(r)
         IN /\ inbox' = [inbox EXCEPT ![s] = @ \o out]
            /\ agent' = [agent EXCEPT ![s].sent = out, ![s].failed = ~done,
                                      ![s].apc = IF done THEN "copy" ELSE "read"]
    /\ UNCHANGED <<cfg, conn, reader, pool, srv, worker, req>>

\* defaultHandler, io.Copy(bodyWriter, resp.Body) and bodyWriter.Close():
\* the body goes out as one binary frame; when the copy fails the handler
\* returns false and serve returns.
CopyResponse(s) ==
    /\ ~agent[s].down
    /\ agent[s].apc = "copy"
    /\ \E copied \in BOOLEAN :
         IF copied
         THEN /\ inbox' = [inbox EXCEPT ![s] = Append(@, Frame(agent[s].cur, "body", Body))]
              /\ agent' = [agent EXCEPT ![s].apc = "read",
                                        ![s].sent = Append(@, Frame(agent[s].cur, "body", Body))]
         ELSE /\ agent' = [agent EXCEPT ![s] = ServeReturns(@)]
              /\ UNCHANGED inbox
    /\ UNCHANGED <<cfg, conn, reader, pool, srv, worker, req>>

\* req2Handler under the handler's calls: WriteHeader sends the metadata
\* and opens the body writer; Write calls WriteHeader(200) first when no
\* body writer is open. `body` is `r.body != nil`.
req2Handler(calls) ==
    LET call(w, c) ==
            IF c = "WriteHeader" \/ ~w.body
            THEN [body |-> TRUE, metas |-> w.metas + 1] ELSE w
        run[i \in 0..Len(calls)] ==
            IF i = 0 THEN [body |-> FALSE, metas |-> 0]
            ELSE CHOOSE next \in {call(w, calls[i]) : w \in {run[i - 1]}} : TRUE
    IN run[Len(calls)]

\* customHandler: Config.Handler(writer, req), then writer.body.Close(),
\* which completes the binary frame, or is a call on a nil interface when
\* the handler wrote nothing: the goroutine panics, nothing recovers it and
\* the agent's process ends.
customHandler(s) ==
    /\ ~agent[s].down
    /\ agent[s].apc = "handle"
    /\ agent[s].custom
    /\ \E calls \in HandlerCalls :
         LET w == req2Handler(calls)
             r == agent[s].cur
             metas == [i \in 1..w.metas |-> Frame(r, "meta", [json |-> TRUE, code |-> 200])]
         IN IF w.body
            THEN /\ inbox' = [inbox EXCEPT ![s] = @ \o metas \o <<Frame(r, "body", Body)>>]
                 /\ agent' = [agent EXCEPT ![s].apc = "read",
                                           ![s].sent = metas \o <<Frame(r, "body", Body)>>]
            ELSE /\ agent' = [agent EXCEPT ![s].down = TRUE, ![s].apc = "panic"]
                 /\ UNCHANGED inbox
    /\ UNCHANGED <<cfg, conn, reader, pool, srv, worker, req>>

ServeNext ==
    \/ registerPool
    \/ RegisterGive
    \/ RegisterConn
    \/ \E g \in Pools : PoolNewConn(g)
    \/ \E w \in Workers : GetPool(w)
    \/ \E r \in Reqs : HandleRequest(r)
    \/ \E r \in Reqs, w \in Workers : Submit(r, w)
    \/ \E w \in Workers : WorkerNoPool(w)
    \/ \E w \in Workers : WorkerRecv(w)
    \/ \E w \in Workers : WorkerTake(w)
    \/ \E s \in Socks : serveHandler(s)
    \/ \E s \in Socks : defaultHandler(s)
    \/ \E s \in Socks : CopyResponse(s)
    \/ \E s \in Socks : customHandler(s)
    \/ \E s \in Socks : ReaderStep(s)
    \/ \E r \in Reqs : HandlerStep(r)

SpecServe == ServeInit /\ [][ServeNext]_vars

Kinds(frames) == [i \in 1..Len(frames) |-> frames[i].kind]

\* The agent is through with the request it read: back at ReadMessage, or
\* out of serve.
Answers(s) ==
    /\ agent[s].apc \in {"handle", "copy"}
    /\ agent'[s].apc \notin {"handle", "copy"}

AnswersOrCloses ==
    \A s \in Socks :
        Answers(s) =>
            \/ /\ agent'[s].apc = "read"
               /\ ~agent'[s].down
               /\ Kinds(agent'[s].sent) = <<"meta", "body">>
               /\ \A i \in 1..2 : agent'[s].sent[i].req = agent[s].cur
               /\ inbox'[s] = inbox[s] \o SubSeq(agent'[s].sent, Len(agent[s].sent) + 1, 2)
               /\ agent'[s].failed => agent'[s].sent[1].code = ClientErrorCode
            \/ /\ agent'[s].apc = "closed"
               /\ agent'[s].down

\* C33: for every request the agent reads it sends one text frame with the
\* metadata and then one binary frame with the body and goes on serving, or
\* it closes the connection; a request whose local execution fails is
\* answered with 527 and the connection goes on serving; and so it is for
\* a custom handler, one that writes no header and no body included.
C33_AnswersOrCloses == [][AnswersOrCloses]_vars

\* The custom handler returned without a call to WriteHeader or Write: the
\* agent sent nothing for the request and is gone by a panic, while the
\* server's handler waits for the metadata of its exchange.
C33_Witness ==
    \E s \in Socks, r \in Reqs :
        /\ agent[s].apc = "panic"
        /\ agent[s].custom
        /\ agent[s].sent = <<>>
        /\ agent[s].cur = r
        /\ req[r].pc = "s2h"
        /\ req[r].conn = s

\* ------------------------------------------------------------------ C34
\* Socket s gets an entry in an idle queue in this step.
Enqueued(s) ==
    \E g \in Pools : Entries(pool'[g].idle, s) > Entries(pool[g].idle, s)

EnqueuedByGive ==
    \A s \in Socks :
        Enqueued(s) =>
            /\ ~InQueue(s)
            /\ Locked(s)
            /\ \/ /\ srv.cpc = "reggive"
                  /\ srv.cs = s
                  /\ conn[s].given = 0
                  /\ conn[s].requests = 0
               \/ \E r \in Reqs :
                     /\ req[r].pc = "give2"
                     /\ req[r].conn = s
                     /\ req'[r].pc = "done"

AtMostOneEntry ==
    \A g \in Pools, s \in Socks : Entries(pool[g].idle, s) <= 1

\* C34: a socket has at most one entry in its pool's idle queue; an entry
\* is put there by the Give of the registration, or by the Give that ends
\* the exchange of a request to which a Take delivered the socket, and
\* only when the socket has no entry.
C34_AtMostOneEntry == []AtMostOneEntry /\ [][EnqueuedByGive]_vars

\* A socket is back in the idle queue after two exchanges, its third
\* entry since registration, and it is the queue's only entry.
C34_Witness ==
    \E s \in Socks :
        /\ Dispatched(s) = 2
        /\ \A r \in Reqs : req[r].conn = s => req[r].outcome = "ok"
        /\ conn[s].status = "idle"
        /\ pool[conn[s].pool].idle = <<s>>

\* ------------------------------------------------------------------ C35
\* The run in which agents register under ids and secrets that run into
\* each other: a secret and an id with the same characters split at
\* another place, and an id that is the digest of another agent's secret
\* and id, sent by an agent for which the validator returns no secret.
KeySocks == 2
KeyReqs == 1
KeyWorkers == 1
KeyIDs == {AgentID, <<"b", "a">>, Sha256Hex(<<"k">> \o AgentID)}
KeySecrets == {NoSecret, <<"k">>, <<"k", "b">>}
KeyGreetings == {Registration(<<i, HandshakeSize, HandshakeMax>>, k) :
                    i \in KeyIDs, k \in KeySecrets}

KeyInit ==
    \E greet \in [1..KeySocks -> KeyGreetings] :
        InitCfg(KeySocks, KeyReqs, KeyWorkers, TRUE, greet)

SpecKeys == KeyInit /\ [][GiveNext]_vars

\* What a registration carries: the validator's secret and the agent's id.
Credentials(s) == <<Client(cfg.greet[s]).secret, Client(cfg.greet[s]).id>>

\* C35: two registered sockets are in the same pool only if their
\* registrations carry the same secret and the same id.
C35_KeysIsolate ==
    \A a, b \in Registered :
        conn[a].pool = conn[b].pool => Credentials(a) = Credentials(b)

\* Two sockets registered under different secrets and different ids, whose
\* secret followed by id is the same string, are Idle in the queue of one
\* pool.
C35_Witness ==
    \E a, b \in Registered :
        /\ Credentials(a)[1] # Credentials(b)[1]
        /\ Credentials(a)[2] # Credentials(b)[2]
        /\ Credentials(a)[1] # NoSecret
        /\ Credentials(b)[1] # NoSecret
        /\ Credentials(a)[1] \o Credentials(a)[2] = Credentials(b)[1] \o Credentials(b)[2]
        /\ conn[a].pool = conn[b].pool
        /\ pool[conn[a].pool].idle = <<a, b>>

\* ------------------------------------------------------------------ C36
\* The run in which a pool is collected or shut down with the server, and
\* the agent may register again afterwards.
EndSocks == 2
EndReqs == 1
EndWorkers == 1

EndInit == InitWith(EndSocks, EndReqs, EndWorkers)

SpecEnd == EndInit /\ [][ShutNext]_vars

\* Pool.Shutdown has been called on pool g: its register channel is closed.
WasShutDown(g) == pool[g].newConnClosed
InMap(g) == \E k \in Pooled : srv.poolMap[k] = g

ShutDownNotMapped == \A g \in Pools : WasShutDown(g) => ~InMap(g)

ShutDownOnce ==
    /\ \A g \in Pools :
          \* Pool.Shutdown is called on a pool of the map, which leaves the
          \* map with it, and the register channel stays closed.
          /\ ~WasShutDown(g) /\ pool'[g].newConnClosed => InMap(g)
          /\ WasShutDown(g) => pool'[g].newConnClosed
    \* Pool.Register: the pool found for a registration, and the pool on
    \* whose register channel a connection is sent, is not shut down.
    /\ srv'.nreg # srv.nreg /\ srv'.cg # 0 => ~WasShutDown(srv'.cg)
    /\ srv.cpc = "regconn" /\ srv'.cpc = "loop" => ~WasShutDown(srv.cg)
    \* Pool.IsEmpty: the pools asked by cleanPools are not shut down.
    /\ srv'.cpc = "askclean" =>
          \A k \in srv'.todo : ~WasShutDown(srv.poolMap[k])

\* C36: a pool on which Pool.Shutdown has been called, by cleanPools or by
\* the server's shutdown, is in the pool map in no later state; nothing is
\* registered in it, it is not asked to clean again, and its register
\* channel is closed once.
C36_ShutDownPoolsGone == []ShutDownNotMapped /\ [][ShutDownOnce]_vars

\* cleanPools collected the agent's first pool; the agent registered
\* again, for which a second pool was made, and that pool was shut down
\* with the server.
C36_Witness ==
    /\ srv.made = 2
    /\ WasShutDown(1)
    /\ WasShutDown(2)
    /\ srv.cpc = "exited"
    /\ pool[1].pc = "stopped"
    /\ pool[2].pc = "stopped"

\* ------------------------------------------------------------------ C37
\* The lookup as its two channel operations, with the coordinator between
\* them. s.getPool and s.repPool are channels without a buffer.
LookSocks == 1
LookReqs == 2
LookWorkers == 2

LookInit == InitWith(LookSocks, LookReqs, LookWorkers)

\* A coordinator that takes the next lookup before it has replied to the
\* last one.
getPoolEager(w) ==
    /\ srv.cpc \in {"loop", "reply"}
    /\ worker[w].pc = "ask"
    /\ srv' = [srv EXCEPT !.cpc = "reply", !.ask = w]
    /\ worker' = [worker EXCEPT ![w].pc = "rep"]
    /\ UNCHANGED <<cfg, conn, reader, inbox, agent, pool, req>>

\* The worker's `s.getPool <- &getPoolRequest{...}` taken by the
\* coordinator's `case req := <-s.getPool`; the worker goes on to
\* `pool := <-s.repPool`.
getPool(w) ==
    /\ srv.cpc = "loop"
    /\ worker[w].pc = "ask"
    /\ srv' = [srv EXCEPT !.cpc = "reply", !.ask = w]
    /\ worker' = [worker EXCEPT ![w].pc = "rep"]
    /\ UNCHANGED <<cfg, conn, reader, inbox, agent, pool, req>>

\* The coordinator's `s.repPool <- s.pools[req.clientID]`, taken by a
\* worker that waits in `pool := <-s.repPool`.
repPool(w) ==
    /\ srv.cpc = "reply"
    /\ worker[w].pc = "rep"
    /\ LET g == PoolFor(req[worker[srv.ask].req].target) IN
       worker' = [worker EXCEPT ![w].pool = g,
                                ![w].pc = IF g = 0 THEN "nopool" ELSE "recv"]
    /\ srv' = [srv EXCEPT !.cpc = "loop", !.ask = 0]
    /\ UNCHANGED <<cfg, conn, reader, inbox, agent, pool, req>>

LookNext ==
    \/ Environment
    \/ registerPool \/ RegisterGive \/ RegisterConn \/ cleanPools \/ IsEmpty
    \/ \E w \in Workers : getPool(w)
    \/ \E w \in Workers : repPool(w)
    \/ PoolKeeper \/ Dispatch \/ Readers \/ Exchange
    \/ Shutdown
    \/ CoordShutdown
    \/ \E w \in Workers : WorkerShutdown(w)
    \/ \E r \in Reqs : HandlerPanic(r)
    \/ \E g \in Pools : PoolStop(g)

SpecLook == LookInit /\ [][LookNext]_vars

\* The workers that wait in `<-s.repPool`.
Waiting == {w \in Workers : worker[w].pc = "rep"}

ReplyToAsker ==
    /\ srv.cpc = "reply" /\ srv'.cpc = "loop" =>
          \A w \in Workers :
              worker'[w] # worker[w] =>
                  /\ w = srv.ask
                  /\ worker'[w].pool = PoolFor(req[worker[w].req].target)
    /\ \A w \in Workers :
          worker[w].pc = "rep" /\ worker'[w].pc \in {"nopool", "recv"} =>
              srv.cpc = "reply" /\ srv.ask = w

\* C37: a reply the coordinator sends on repPool is received by the worker
\* whose lookup it answers, with the pool of that worker's request; while
\* the coordinator has a reply to send, no other worker waits on repPool.
C37_ReplyToAsker ==
    /\ [](srv.cpc = "reply" => Waiting = {srv.ask})
    /\ [][ReplyToAsker]_vars

\* Both workers are in a lookup for requests with different targets: the
\* coordinator has taken the lookup of one, which waits for the reply,
\* and the other is still at its send on getPool.
C37_Witness ==
    \E a, b \in Workers :
        /\ a # b
        /\ srv.cpc = "reply"
        /\ srv.ask = a
        /\ worker[a].pc = "rep"
        /\ worker[b].pc = "ask"
        /\ req[worker[a].req].target # req[worker[b].req].target
        /\ PoolFor(req[worker[a].req].target) # PoolFor(req[worker[b].req].target)

\* ------------------------------------------------------------------ C38
\* The coordinator is inside registerPool (at the new connection's Give or
\* at Pool.Register's send) or inside cleanPools.
InHandler == srv.cpc \in {"reggive", "regconn", "askclean"}

\* C38: whenever the coordinator is inside one of its handlers it is back
\* at its select in the end.
C38_CoordinatorReturns == InHandler ~> (srv.cpc = "loop")

\* The coordinator is in cleanPools at Pool.IsEmpty's send, the pool's
\* goroutine is in clean for the registration before, at the lock of a
\* socket whose Give waits on the full idle queue, and no request is left
\* to take a socket from the queue.
C38_Witness ==
    \E g \in Pools, r \in Reqs :
        /\ srv.cpc = "askclean"
        /\ pool[g].pc = "new"
        /\ req[r].pc = "give2"
        /\ conn[req[r].conn].pool = g
        /\ Locked(req[r].conn)
        /\ req[r].conn \in Members(pool[g].conns)
        /\ IdleLen(g) = PoolCap(g)
        /\ \A q \in Reqs \ {r} : req[q].pc = "done"

\* ------------------------------------------------------------------ C39
StatSocks == 1
StatReqs == 2
StatWorkers == 1

\* The status of a response whose first write is the encoder's, and the
\* body the encoder writes.
StatusOK == 200
StatsText == "stats"

\* Server.HandleStats with the coordinator at its select:
\* `s.getStats <- clientID(...)` is taken by `case clientID := <-s.getStats`,
\* whose `s.repStats <- &Stats{...}` is taken by the handler's
\* `<-s.repStats`; the encoder writes the reply to the caller.
HandleStats(r) ==
    /\ req[r].pc = "new"
    /\ IF r = 1 THEN TRUE ELSE req[r - 1].pc # "new"
    /\ srv.cpc = "loop"
    /\ ~srv.chClosed
    /\ req' = [req EXCEPT ![r] =
                  Done([@ EXCEPT !.head = TRUE, !.body = Append(@, StatsText)],
                       StatusOK, "stats")]
    /\ UNCHANGED <<cfg, conn, reader, inbox, agent, pool, srv, worker>>

\* Server.HandleStats once shutdown() has run close(s.getStats): the send
\* is on a closed channel (whatever its capacity), the handler panics and
\* the caller gets no response.
HandleStatsPanic(r) ==
    /\ req[r].pc = "new"
    /\ IF r = 1 THEN TRUE ELSE req[r - 1].pc # "new"
    /\ srv.chClosed
    /\ req' = [req EXCEPT ![r] = Done(@, @.code, "statspanic")]
    /\ UNCHANGED <<cfg, conn, reader, inbox, agent, pool, srv, worker>>

StatInit == InitWith(StatSocks, StatReqs, StatWorkers)

\* The server with its two entry points for callers and a shutdown.
StatNext ==
    \/ ShutNext
    \/ \E r \in Reqs : HandleStats(r)
    \/ \E r \in Reqs : HandleStatsPanic(r)

SpecStats == StatInit /\ [][StatNext]_vars

\* A call enters HandleRequest or HandleStats in this step, and
\* close(s.dispatcher) has run.
CalledAfterClose(r) ==
    /\ srv.dispClosed
    /\ req[r].pc = "new"
    /\ req'[r].pc # "new"

\* The call has ended with the error response of ProxyError, and not on the
\* way of a panic.
ErrorResponse(q) ==
    /\ q.pc = "done"
    /\ q.code = ProxyErrorCode
    /\ q.outcome \notin {"panic", "statspanic"}

\* The step leaves the call at `s.dispatcher <- request`: the channel is
\* closed for good, so that the send is on a closed channel.
AtClosedSend(q) == q.pc = "submit" /\ srv.dispClosed

ErrorAfterClose ==
    \A r \in Reqs : CalledAfterClose(r) =>
        ErrorResponse(req'[r]) /\ ~AtClosedSend(req'[r])

\* C39: a call that enters the request entry point or the stats entry
\* point after shutdown() has closed the dispatcher channel ends with the
\* error response (526), and is never taken to a send on a closed channel.
C39_ErrorAfterClose == [][ErrorAfterClose]_vars

\* The shutdown is over (every channel closed, the pools deleted); a call
\* of the stats entry point made after it has sent on the closed getStats
\* and the caller has no response, and a call of the request entry point
\* made while the pools were still in the map has sent on the closed
\* dispatcher channel.
C39_Witness ==
    /\ srv.cpc = "exited"
    /\ srv.chClosed
    /\ \E r \in Reqs : req[r].outcome = "statspanic" /\ ~req[r].head
    /\ \E r \in Reqs : req[r].outcome = "panic" /\ ~req[r].head
====
